---------------------------- MODULE Spec2Model ----------------------------
(***************************************************************************)
(* A model of ai-code-context: the change filter and its glob matcher      *)
(* (src/src/analyzer.ts), the batch analysis loop (src/src/analyzer.ts),   *)
(* the response section extractor (src/src/analyzer.ts), the unified diff  *)
(* parser and the commit hook (git-utils.ts, src/unnamed/part_001), the    *)
(* configuration manager (config.ts, src/unnamed/part_001), the AI         *)
(* providers (src/src/ai-provider.ts) and the commands of src/src/cli.ts.  *)
(*                                                                         *)
(* Strings are sequences of lexemes.  In the glob matcher and in the       *)
(* marker columns of diff lines every lexeme is one character.             *)
(***************************************************************************)
EXTENDS Integers, Sequences, FiniteSets, TLC

VARIABLES
    \* ---- change filter (CodeAnalyzer.shouldAnalyzeFile / matchesPattern)
    config,         \* this.config: includePatterns / excludePatterns
    filePath,       \* the path handed to the filter or to analyzeFile
    pattern,        \* the pattern of the last matchesPattern call
    matched,        \* its outcome: "none" | "true" | "false" | "throw"
    verdict,        \* outcome of the last shouldAnalyzeFile call
    \* ---- section extraction (CodeAnalyzer.extractSections)
    layout,         \* how the backend put its response together
    response,       \* the response text
    extracted,      \* whether extractSections has run on it
    sections,       \* the sections it returned
    \* ---- diff parsing (GitUtils.parseDiffOutput)
    diffOutput,     \* the diff text of one file
    lines,          \* diffOutput.split('\n')
    i,              \* the loop index (1-based here, 0-based in the code)
    currentLineNumber,
    changes,        \* the GitChange records emitted so far
    \* ---- one analysis operation (CodeAnalyzer.analyze*)
    operation,      \* the operation that was called
    diffs,          \* the files of the GitDiffResult list, in order
    index,          \* the position of the for-of loop of analyzeDiffs
    phase,          \* where the operation stands
    trace,          \* filter evaluations and backend requests, in order
    results,        \* the AnalysisResult records collected so far
    \* ---- the analyze command (cli.ts, analyzeCode and its caller)
    options,        \* the --auto and --output options of the command
    updateReadme,   \* config.updateReadme
    thrown,         \* the message of the error an operation rejected with
    console,        \* what the command printed, in order
    written,        \* the report written to the --output file
    readme,         \* whether the README was updated
    \* ---- list itemization (CodeAnalyzer.extractListItems)
    sectionText,    \* the text of a list section
    itemized,       \* whether extractListItems has run on it
    listItems,      \* the items it returned
    \* ---- configuration (ConfigManager) and the AI provider
    env,            \* process.env: the two API key variables
    configFile,     \* .aicontext.json: its content, or why there is none
    managerConfig,  \* ConfigManager.config
    aiProvider,     \* the provider that createAIProvider constructed
    posted,         \* the requests handed to axios.post, in order
    upstream,       \* how axios.post settled: an error or a response
    settled,        \* how the promise of the last analyzeCode call settled
    \* ---- the commands of the CLI that keep files (cli.ts)
    history,        \* the commands that were run, in order
    hook,           \* .git/hooks/post-commit
    readmeFile,     \* the README
    readmeAtStart   \* the README before the first command

filterVars == <<config, filePath, pattern, matched, verdict>>
extractVars == <<layout, response, extracted, sections>>
diffVars == <<diffOutput, lines, i, currentLineNumber, changes>>

analyzeVars == <<operation, diffs, index, phase, trace, results>>

cliVars == <<options, updateReadme, thrown, console, written, readme>>

listVars == <<sectionText, itemized, listItems>>

configVars == <<env, configFile, managerConfig>>

providerVars == <<aiProvider, posted, upstream, settled>>

fileVars == <<history, hook, readmeFile, readmeAtStart>>

toolVars == <<configVars, providerVars, fileVars>>

vars == <<filterVars, extractVars, diffVars, analyzeVars, cliVars, listVars,
          toolVars>>

---------------------------------------------------------------------------
(* Bounds of the model.                                                    *)

\* Longest include / exclude list drawn for the change filter.
MaxPatterns == 2
\* Deepest directory nesting of the generated '.ts' paths.
MaxDepth == 3
\* Most heading blocks in a generated backend response.
MaxSections == 4
\* Most lines in a generated diff text.
MaxLines == 4
\* Most files in the diff list of one analysis operation.
MaxFiles == 2
\* Most lexemes in a generated free text.
MaxTextLen == 4
\* Most bullet lines in the Key Changes section of a well-formed response.
MaxItems == 2
\* Most lexemes in a generated list section text.
MaxListLen == 5

---------------------------------------------------------------------------
(* Generic helpers on sequences.                                           *)

Range(s) == {s[k] : k \in 1..Len(s)}

SeqsUpTo(S, n) == UNION {[1..k -> S] : k \in 0..n}

StartsWith(s, p) == Len(s) >= Len(p) /\ SubSeq(s, 1, Len(p)) = p

EndsWith(s, p) ==
    Len(s) >= Len(p) /\ SubSeq(s, Len(s) - Len(p) + 1, Len(s)) = p

---------------------------------------------------------------------------
(* String.prototype.replace with a global regular expression, as used by   *)
(* matchesPattern: leftmost, non-overlapping occurrences, left to right.   *)

RECURSIVE ReplaceAll(_, _, _)
ReplaceAll(s, from, to) ==
    IF s = <<>> THEN <<>>
    ELSE IF StartsWith(s, from)
         THEN to \o ReplaceAll(SubSeq(s, Len(from) + 1, Len(s)), from, to)
         ELSE <<Head(s)>> \o ReplaceAll(Tail(s), from, to)

\* analyzer.ts:98-101: the three replacements, each applied to the output
\* of the one before it.
GlobToRegexSource(pat) ==
    LET r1 == ReplaceAll(pat, <<"*", "*">>, <<".", "*">>)
        r2 == ReplaceAll(r1, <<"*">>, <<"[", "^", "/", "]", "*">>)
        r3 == ReplaceAll(r2, <<"?">>, <<"[", "^", "/", "]">>)
    IN r3

---------------------------------------------------------------------------
(* new RegExp(source): the part of the ECMAScript pattern grammar that the *)
(* translated globs can reach.  A compiled pattern is a sequence of atoms  *)
(*   [kind: "lit" | "any" | "class" | "bol" | "eol", ch, neg, set, star]   *)
(* and compilation fails (SyntaxError) on an unterminated class, an        *)
(* unterminated group or a quantifier with nothing to repeat.              *)

SyntaxError == [ok |-> FALSE, atoms |-> <<>>]

Atom(kind, ch, neg, set) ==
    [kind |-> kind, ch |-> ch, neg |-> neg, set |-> set, star |-> FALSE]

\* Index of the first "]" at or after position pos, 0 when there is none.
RECURSIVE ClassEnd(_, _)
ClassEnd(src, pos) ==
    IF pos > Len(src) THEN 0
    ELSE IF src[pos] = "]" THEN pos
    ELSE ClassEnd(src, pos + 1)

\* The atom for the character class that opens at src[pos] = "[" and closes
\* at src[e] = "]".
ClassAtom(src, pos, e) ==
    LET neg == pos + 1 < e /\ src[pos + 1] = "^"
        first == IF neg THEN pos + 2 ELSE pos + 1
    IN Atom("class", "", neg, {src[k] : k \in first..(e - 1)})

RECURSIVE CompileFrom(_, _, _)
CompileFrom(src, pos, acc) ==
    IF pos > Len(src) THEN [ok |-> TRUE, atoms |-> acc]
    ELSE
      LET c == src[pos] IN
      CASE c = "[" ->
             LET e == ClassEnd(src, pos + 1) IN
             IF e = 0 THEN SyntaxError
             ELSE CompileFrom(src, e + 1, Append(acc, ClassAtom(src, pos, e)))
        [] c = "(" -> SyntaxError   \* no ")" can follow: unterminated group
        [] c = "*" ->
             IF acc = <<>> \/ acc[Len(acc)].star
                \/ acc[Len(acc)].kind \in {"bol", "eol"}
             THEN SyntaxError
             ELSE CompileFrom(src, pos + 1,
                    [acc EXCEPT ![Len(acc)].star = TRUE])
        [] c = "." -> CompileFrom(src, pos + 1, Append(acc, Atom("any", "", FALSE, {})))
        [] c = "^" -> CompileFrom(src, pos + 1, Append(acc, Atom("bol", "", FALSE, {})))
        [] c = "$" -> CompileFrom(src, pos + 1, Append(acc, Atom("eol", "", FALSE, {})))
        [] OTHER   -> CompileFrom(src, pos + 1, Append(acc, Atom("lit", c, FALSE, {})))

NewRegExp(src) == CompileFrom(src, 1, <<>>)

\* Whether atom a accepts the single character c.
Accepts(a, c) ==
    CASE a.kind = "lit"   -> c = a.ch
      [] a.kind = "any"   -> c # "\n"
      [] a.kind = "class" -> (c \in a.set) # a.neg
      [] OTHER            -> FALSE

\* Whether atoms[k..] can match a prefix of s[j..]; with the trailing "$"
\* atom this is a match up to the end of s.
RECURSIVE MatchFrom(_, _, _, _)
MatchFrom(atoms, k, s, j) ==
    IF k > Len(atoms) THEN TRUE
    ELSE
      LET a == atoms[k] IN
      CASE a.kind = "bol" -> j = 1 /\ MatchFrom(atoms, k + 1, s, j)
        [] a.kind = "eol" -> j = Len(s) + 1 /\ MatchFrom(atoms, k + 1, s, j)
        [] a.star ->
             \E n \in 0..(Len(s) + 1 - j) :
                /\ \A m \in j..(j + n - 1) : Accepts(a, s[m])
                /\ MatchFrom(atoms, k + 1, s, j + n)
        [] OTHER ->
             /\ j <= Len(s)
             /\ Accepts(a, s[j])
             /\ MatchFrom(atoms, k + 1, s, j + 1)

\* RegExp.prototype.test for a pattern without the global flag.
RegExpTest(atoms, s) == \E j \in 1..(Len(s) + 1) : MatchFrom(atoms, 1, s, j)

---------------------------------------------------------------------------
(* CodeAnalyzer.matchesPattern and CodeAnalyzer.shouldAnalyzeFile.         *)
(* Outcomes are "true", "false" and "throw" (the SyntaxError of            *)
(* new RegExp leaves both functions uncaught).                             *)

\* The alternatives of a pattern source: its parts between the "|" that
\* are outside a character class.
RECURSIVE SplitAlternatives(_, _, _, _)
SplitAlternatives(src, pos, current, acc) ==
    IF pos > Len(src) THEN Append(acc, current)
    ELSE IF src[pos] = "|"
         THEN SplitAlternatives(src, pos + 1, <<>>, Append(acc, current))
    ELSE IF src[pos] = "[" /\ ClassEnd(src, pos + 1) # 0
         THEN SplitAlternatives(src, ClassEnd(src, pos + 1) + 1,
                 current \o SubSeq(src, pos, ClassEnd(src, pos + 1)), acc)
    ELSE IF src[pos] = "["
         THEN Append(acc, current \o SubSeq(src, pos, Len(src)))
    ELSE SplitAlternatives(src, pos + 1, Append(current, src[pos]), acc)

\* new RegExp(`^${regex}$`).test(filePath): the expression matches when
\* one of its alternatives does.
matchesPattern(path, pat) ==
    LET alts == SplitAlternatives(<<"^">> \o GlobToRegexSource(pat) \o <<"$">>,
                                  1, <<>>, <<>>)
        res == [a \in 1..Len(alts) |-> NewRegExp(alts[a])]
    IN IF \E a \in 1..Len(alts) : ~res[a].ok THEN "throw"
       ELSE IF \E a \in 1..Len(alts) : RegExpTest(res[a].atoms, path)
            THEN "true" ELSE "false"

\* The outcome of `for (p of pats) if (matchesPattern(path, p)) return`:
\* "hit" on the first matching pattern, "throw" when a pattern before it
\* does not compile, "miss" when the loop runs to its end.
RECURSIVE FirstMatch(_, _)
FirstMatch(path, pats) ==
    IF pats = <<>> THEN "miss"
    ELSE LET m == matchesPattern(path, Head(pats)) IN
         CASE m = "throw" -> "throw"
           [] m = "true"  -> "hit"
           [] OTHER       -> FirstMatch(path, Tail(pats))

\* A pattern list of the configuration is either undefined (present =
\* FALSE) or an array (present = TRUE); an empty array is truthy.
shouldAnalyzeFile(path, cfg) ==
    LET ex == IF cfg.excludePatterns.present
              THEN FirstMatch(path, cfg.excludePatterns.items) ELSE "miss"
        inc == FirstMatch(path, cfg.includePatterns.items)
    IN CASE ex = "throw" -> "throw"
         [] ex = "hit"   -> "false"
         [] ~cfg.includePatterns.present -> "true"
         [] inc = "throw" -> "throw"
         [] inc = "hit"   -> "true"
         [] OTHER         -> "false"

---------------------------------------------------------------------------
(* CodeAnalyzer.extractSections.  A response text is a sequence of         *)
(* lexemes: a heading word, a body word, or one separator character        *)
(* (":", "-", " ", "\n", "*", "+", ".", a digit).  No body word contains   *)
(* or completes a heading word, so matching the regular expressions of     *)
(* extractSections lexeme by lexeme is matching them character by          *)
(* character.                                                              *)

\* The /i flag on the heading words.
Fold(t) ==
    CASE t \in {"Summary", "SUMMARY", "summary"} -> "summary"
      [] t \in {"Purpose", "PURPOSE", "purpose"} -> "purpose"
      [] t \in {"Key", "KEY", "key"} -> "key"
      [] t \in {"Changes", "CHANGES", "changes"} -> "changes"
      [] t \in {"Impact", "IMPACT", "impact"} -> "impact"
      [] t \in {"Documentation", "DOCUMENTATION", "documentation"}
           -> "documentation"
      [] t \in {"Suggestions", "SUGGESTIONS", "suggestions"} -> "suggestions"
      [] OTHER -> t

\* \s
IsSpace(t) == t \in {" ", "\n", "\t"}

\* [:\-\s]
IsSeparator(t) == t \in {":", "-"} \/ IsSpace(t)

\* String.prototype.trim
RECURSIVE TrimStart(_)
TrimStart(s) ==
    IF s # <<>> /\ IsSpace(Head(s)) THEN TrimStart(Tail(s)) ELSE s

RECURSIVE TrimEnd(_)
TrimEnd(s) ==
    IF s # <<>> /\ IsSpace(s[Len(s)])
    THEN TrimEnd(SubSeq(s, 1, Len(s) - 1)) ELSE s

Trim(s) == TrimEnd(TrimStart(s))

\* A heading pattern that accepts any words of the right length.
HeadingAtAnyWords(text, pos, words) == pos + Len(words) - 1 <= Len(text)

\* The heading alternative (?:Summary|SUMMARY) etc. at position pos.
HeadingAt(text, pos, words) ==
    /\ pos + Len(words) - 1 <= Len(text)
    /\ \A k \in 1..Len(words) : Fold(text[pos + k - 1]) = words[k]

\* The lookahead (?=\n(?:stop words|$)) at position p.
LookaheadAt(text, p, stops) ==
    /\ p <= Len(text)
    /\ text[p] = "\n"
    /\ (p = Len(text) \/ Fold(text[p + 1]) \in stops)

\* Length of the run of separators that starts at position q.
RECURSIVE SeparatorRun(_, _)
SeparatorRun(text, q) ==
    IF q <= Len(text) /\ IsSeparator(text[q])
    THEN 1 + SeparatorRun(text, q + 1) ELSE 0

NoMatch == [found |-> FALSE, value |-> <<>>]

\* The ends at which the lazy group ([\s\S]*?) can stop when it starts at
\* position q: where the lookahead holds or, for a pattern that ends in
\* "$", the end of the text.
CaptureEnds(text, q, stops, toEnd) ==
    IF toEnd THEN {Len(text) + 1}
    ELSE {p \in q..Len(text) : LookaheadAt(text, p, stops)}

Min(S) == CHOOSE x \in S : \A y \in S : x <= y
Max(S) == CHOOSE x \in S : \A y \in S : x >= y

\* The match attempt that starts at position s: [:\-\s]* is greedy and
\* gives separators back one at a time, the group is lazy.
MatchAt(text, s, words, stops, toEnd) ==
    LET q0 == s + Len(words)
        ks == {k \in 0..SeparatorRun(text, q0) :
                  CaptureEnds(text, q0 + k, stops, toEnd) # {}}
    IN IF ~HeadingAt(text, s, words) \/ ks = {} THEN NoMatch
       ELSE LET q == q0 + Max(ks)
                p == Min(CaptureEnds(text, q, stops, toEnd))
            IN [found |-> TRUE, value |-> SubSeq(text, q, p - 1)]

\* response.match(regex)[1]: the group of the leftmost match.
SectionMatch(text, words, stops, toEnd) ==
    LET starts == {s \in 1..Len(text) :
                      MatchAt(text, s, words, stops, toEnd).found}
    IN IF starts = {} THEN NoMatch
       ELSE MatchAt(text, Min(starts), words, stops, toEnd)

\* text.split('\n')
RECURSIVE SplitLines(_, _)
SplitLines(text, cur) ==
    IF text = <<>> THEN <<cur>>
    ELSE IF Head(text) = "\n" THEN <<cur>> \o SplitLines(Tail(text), <<>>)
    ELSE SplitLines(Tail(text), Append(cur, Head(text)))

IsDigit(t) == t \in {"0", "1", "2", "3", "4", "5", "6", "7", "8", "9"}

\* [\-\*\+\d]
IsBullet(t) == t \in {"-", "*", "+"} \/ IsDigit(t)

RECURSIVE DropWhileBullet(_)
DropWhileBullet(s) ==
    IF s # <<>> /\ IsBullet(Head(s)) THEN DropWhileBullet(Tail(s)) ELSE s

\* A list line that keeps its marker.
KeepListMarker(line) == line

\* line.replace(/^[\-\*\+\d]+\.?\s*/, '')
StripListMarker(line) ==
    IF line = <<>> \/ ~IsBullet(Head(line)) THEN line
    ELSE LET r == DropWhileBullet(line)
             d == IF r # <<>> /\ Head(r) = "." THEN Tail(r) ELSE r
         IN TrimStart(d)

RECURSIVE SelectNonEmpty(_)
SelectNonEmpty(ls) ==
    IF ls = <<>> THEN <<>>
    ELSE IF Head(ls) = <<>> THEN SelectNonEmpty(Tail(ls))
    ELSE <<Head(ls)>> \o SelectNonEmpty(Tail(ls))

extractListItems(text) ==
    LET ls == SplitLines(text, <<>>)
        trimmed == SelectNonEmpty([k \in 1..Len(ls) |-> Trim(ls[k])])
        items == [k \in 1..Len(trimmed) |-> Trim(StripListMarker(trimmed[k]))]
    IN SelectNonEmpty(items)

StopsSummary == {"purpose", "key", "impact", "documentation", "suggestions"}
StopsPurpose == {"key", "impact", "documentation", "suggestions"}
StopsKeyChanges == {"impact", "documentation", "suggestions"}
StopsImpact == {"documentation", "suggestions"}
StopsDocumentation == {"suggestions"}

Trimmed(m) == IF m.found THEN [found |-> TRUE, value |-> Trim(m.value)] ELSE m

Itemized(m) ==
    IF m.found THEN [found |-> TRUE, value |-> extractListItems(m.value)] ELSE m

extractSections(text) ==
    [summary |->
        Trimmed(SectionMatch(text, <<"summary">>, StopsSummary, FALSE)),
     purpose |->
        Trimmed(SectionMatch(text, <<"purpose">>, StopsPurpose, FALSE)),
     impact |->
        Trimmed(SectionMatch(text, <<"impact">>, StopsImpact, FALSE)),
     documentation |->
        Trimmed(SectionMatch(text, <<"documentation">>,
                             StopsDocumentation, FALSE)),
     keyChanges |->
        Itemized(SectionMatch(text, <<"key", " ", "changes">>,
                              StopsKeyChanges, FALSE)),
     suggestions |->
        Itemized(SectionMatch(text, <<"suggestions">>, {}, TRUE))]

---------------------------------------------------------------------------
(* CodeAnalyzer.detectLanguage, parseAnalysisResponse and the guard of the *)
(* loop of analyzeDiffs.                                                   *)

LowerChar(c) ==
    CASE c = "A" -> "a" [] c = "B" -> "b" [] c = "C" -> "c" [] c = "D" -> "d"
      [] c = "E" -> "e" [] c = "F" -> "f" [] c = "G" -> "g" [] c = "H" -> "h"
      [] c = "I" -> "i" [] c = "J" -> "j" [] c = "K" -> "k" [] c = "L" -> "l"
      [] c = "M" -> "m" [] c = "N" -> "n" [] c = "O" -> "o" [] c = "P" -> "p"
      [] c = "Q" -> "q" [] c = "R" -> "r" [] c = "S" -> "s" [] c = "T" -> "t"
      [] c = "U" -> "u" [] c = "V" -> "v" [] c = "W" -> "w" [] c = "X" -> "x"
      [] c = "Y" -> "y" [] c = "Z" -> "z" [] OTHER -> c

ToLowerCase(s) == [k \in 1..Len(s) |-> LowerChar(s[k])]

\* path.basename: what follows the last separator.
BaseName(path) ==
    LET seps == {k \in 1..Len(path) : path[k] = "/"}
    IN IF seps = {} THEN path ELSE SubSeq(path, Max(seps) + 1, Len(path))

\* path.extname: from the last "." of the base name, unless the base name
\* has none or only starts with it.
ExtName(path) ==
    LET b == BaseName(path)
        dots == {k \in 2..Len(b) : b[k] = "."}
    IN IF dots = {} \/ b = <<".", ".">> THEN <<>>
       ELSE SubSeq(b, Max(dots), Len(b))

languageMap ==
    { << <<".", "j", "s">>, "javascript" >>,
      << <<".", "j", "s", "x">>, "javascript" >>,
      << <<".", "t", "s">>, "typescript" >>,
      << <<".", "t", "s", "x">>, "typescript" >>,
      << <<".", "p", "y">>, "python" >>,
      << <<".", "j", "a", "v", "a">>, "java" >>,
      << <<".", "c", "p", "p">>, "cpp" >>,
      << <<".", "c", "x", "x">>, "cpp" >>,
      << <<".", "c", "c">>, "cpp" >>,
      << <<".", "c">>, "c" >>,
      << <<".", "h">>, "c" >>,
      << <<".", "h", "p", "p">>, "cpp" >>,
      << <<".", "c", "s">>, "csharp" >>,
      << <<".", "g", "o">>, "go" >>,
      << <<".", "r", "s">>, "rust" >>,
      << <<".", "p", "h", "p">>, "php" >>,
      << <<".", "r", "b">>, "ruby" >>,
      << <<".", "s", "w", "i", "f", "t">>, "swift" >>,
      << <<".", "k", "t">>, "kotlin" >>,
      << <<".", "s", "c", "a", "l", "a">>, "scala" >> }

detectLanguage(path) ==
    LET ext == ToLowerCase(ExtName(path))
        hits == {e \in languageMap : e[1] = ext}
    IN IF hits = {} THEN "unknown" ELSE (CHOOSE e \in hits : TRUE)[2]

\* section ?? placeholder: only an absent section is replaced.
OrElseWhenAbsent(m, placeholder) == IF m.found THEN m.value ELSE placeholder

\* A default that is never applied.
OrNothing(m, placeholder) == m.value

\* section || placeholder: an absent section and an empty string are falsy.
OrElse(m, placeholder) ==
    IF m.found /\ m.value # <<>> THEN m.value ELSE placeholder

\* section || []: an array, even an empty one, is truthy.
OrEmptyList(m) == IF m.found THEN m.value ELSE <<>>

parseAnalysisResponse(path, language, text) ==
    LET found == extractSections(text)
    IN [file |-> path,
        language |-> language,
        summary |-> OrElse(found.summary, <<"No summary provided">>),
        purpose |-> OrElse(found.purpose, <<"No purpose identified">>),
        keyChanges |-> OrEmptyList(found.keyChanges),
        impact |-> OrElse(found.impact, <<"Impact not specified">>),
        documentation |-> OrElse(found.documentation, text),
        suggestions |-> OrEmptyList(found.suggestions)]

\* A collection that puts the newest result first.
Unshift(rs, result) == <<result>> \o rs

\* results.push(result)
Push(rs, result) == Append(rs, result)

\* A loop that sends every file to the backend, whatever the filter said.
DispatchesUnfiltered(accepted) == accepted # "throw"

\* if (this.shouldAnalyzeFile(diff.file)) { ... analyzeCode ... }
Dispatches(accepted) == accepted = "true"

FilterEvent(path, accepted) ==
    [kind |-> "filter", file |-> path, accepted |-> accepted]

RequestEvent(path) ==
    [kind |-> "request", file |-> path, accepted |-> "none"]

---------------------------------------------------------------------------
(* CodeAnalyzer.generateSummaryReport and the messages of the analyze      *)
(* command.  A report is a sequence of lines, a line a sequence of         *)
(* lexemes; the project context and the time are those of one run.         *)

ProjectContext ==
    [name |-> "demo", type |-> "node", languages |-> <<"typescript">>]

Now == "2024-01-01T00:00:00.000Z"

\* Array.prototype.join(', ').
RECURSIVE JoinComma(_)
JoinComma(items) ==
    IF items = <<>> THEN <<>>
    ELSE IF Len(items) = 1 THEN <<Head(items)>>
    ELSE <<Head(items), ", ">> \o JoinComma(Tail(items))

\* A list section of the report: its title, one "- item" line per item
\* and a blank line; nothing when the list is empty.
RECURSIVE BulletedLines(_)
BulletedLines(items) ==
    IF items = <<>> THEN <<>>
    ELSE << <<"- ">> \o Head(items) >> \o BulletedLines(Tail(items))

ReportList(title, items) ==
    IF Len(items) > 0
    THEN << <<title>> >> \o BulletedLines(items) \o << <<>> >>
    ELSE <<>>

ReportSection(result) ==
    << <<"### ">> \o result.file, <<>>,
       <<"**Language:** ", result.language>>, <<>>,
       <<"**Summary:** ">> \o result.summary, <<>>,
       <<"**Purpose:** ">> \o result.purpose, <<>> >>
    \o ReportList("**Key Changes:**", result.keyChanges)
    \o << <<"**Impact:** ">> \o result.impact, <<>> >>
    \o ReportList("**Suggestions:**", result.suggestions)
    \o << <<"---">>, <<>> >>

RECURSIVE ReportSections(_)
ReportSections(rs) ==
    IF rs = <<>> THEN <<>>
    ELSE ReportSection(Head(rs)) \o ReportSections(Tail(rs))

generateSummaryReport(rs) ==
    << <<"# Code Analysis Report">>, <<>>,
       <<"**Project:** ", ProjectContext.name>>,
       <<"**Type:** ", ProjectContext.type>>,
       <<"**Languages:** ">> \o JoinComma(ProjectContext.languages),
       <<"**Generated:** ", Now>>, <<>>,
       <<"## Summary">>, <<>>,
       <<"Analyzed ", ToString(Len(rs)),
         " file(s) with AI-powered code analysis.">>, <<>> >>
    \o ReportSections(rs)

\* The causes a backend request fails with (error.message of the client).
BackendCauses == {"timeout of 30000ms exceeded", "Rate limit reached"}

\* makeRequest: throw new Error(`OpenAI API request failed: ${cause}`).
RequestFailed(cause) == <<"OpenAI API request failed: ", cause>>

\* The message of the SyntaxError of new RegExp.
InvalidRegularExpression == <<"Invalid regular expression">>

PleaseSpecify ==
    <<"Please specify what to analyze (--commit, --staged, --unstaged, or --file)">>

AnalysisFailed == <<"Analysis failed">>

SpinnerFail(text) == [stream |-> "spinner.fail", text |-> <<text>>]

SpinnerSucceed ==
    [stream |-> "spinner.succeed", text |-> << <<"Analysis complete!">> >>]

AnalyzedFiles(n) ==
    [stream |-> "console.log",
     text |-> << <<"Analyzed ", ToString(n), " file(s)">> >>]

ReportSaved ==
    [stream |-> "console.log", text |-> << <<"Report saved to: ", "out.md">> >>]

ConsoleLog(report) ==
    [stream |-> "console.log", text |-> << <<>> >> \o report]

ErrorDuringAnalysis(message) ==
    [stream |-> "console.error",
     text |-> << <<"Error during analysis:", " ">> \o message >>]

---------------------------------------------------------------------------
(* GitUtils.parseDiffOutput and GitUtils.getContextLines.  A diff line is  *)
(* a sequence of lexemes whose marker characters ("@", "+", "-", " ") and  *)
(* hunk-header characters are one lexeme each.                             *)

\* The longest run of digits that starts at position pos: \d* is greedy and
\* the pattern has no digit after it.
RECURSIVE DigitRun(_, _)
DigitRun(line, pos) ==
    IF pos <= Len(line) /\ IsDigit(line[pos])
    THEN 1 + DigitRun(line, pos + 1) ELSE 0

DigitValue(d) ==
    CASE d = "0" -> 0 [] d = "1" -> 1 [] d = "2" -> 2 [] d = "3" -> 3
      [] d = "4" -> 4 [] d = "5" -> 5 [] d = "6" -> 6 [] d = "7" -> 7
      [] d = "8" -> 8 [] d = "9" -> 9

\* parseInt(digits, 10)
RECURSIVE ParseInt(_)
ParseInt(digits) ==
    IF digits = <<>> THEN 0
    ELSE 10 * ParseInt(SubSeq(digits, 1, Len(digits) - 1))
         + DigitValue(digits[Len(digits)])

LitAt(line, pos, lit) ==
    /\ pos + Len(lit) - 1 <= Len(line)
    /\ SubSeq(line, pos, pos + Len(lit) - 1) = lit

\* The position after \d+,?\d* when it matches at pos, 0 when it does not.
AfterRange(line, pos) ==
    LET a == DigitRun(line, pos)
        c == IF LitAt(line, pos + a, <<",">>) THEN 1 ELSE 0
        b == DigitRun(line, pos + a + c)
    IN IF a = 0 THEN 0 ELSE pos + a + c + b

NoHunk == [found |-> FALSE, start |-> <<>>, rest |-> <<>>]

\* /@@ -\d+,?\d* \+(\d+),?\d* @@/ tried at position pos: the digits of
\* group 1 and what follows it.
HunkMatchAt(line, pos) ==
    LET p1 == pos + 4                       \* after "@@ -"
        p2 == AfterRange(line, p1)          \* after the old range
        p3 == p2 + 2                        \* after " +"
        p4 == AfterRange(line, p3)          \* after the new range
        n  == DigitRun(line, p3)
    IN IF /\ LitAt(line, pos, <<"@", "@", " ", "-">>)
          /\ p2 # 0
          /\ LitAt(line, p2, <<" ", "+">>)
          /\ p4 # 0
          /\ LitAt(line, p4, <<" ", "@", "@">>)
       THEN [found |-> TRUE,
             start |-> SubSeq(line, p3, p3 + n - 1),
             rest |-> SubSeq(line, p3 + n, p4 - 1)]
       ELSE NoHunk

\* line.match(...): the leftmost position at which the pattern matches.
HunkMatch(line) ==
    LET at == {pos \in 1..Len(line) : HunkMatchAt(line, pos).found}
    IN IF at = {} THEN NoHunk ELSE HunkMatchAt(line, Min(at))

ContextSize == 3

\* lines.slice(start, end).filter(startsWith(' ')).map(substring(1))
RECURSIVE ContextOf(_)
ContextOf(window) ==
    IF window = <<>> THEN <<>>
    ELSE IF StartsWith(Head(window), <<" ">>)
         THEN <<Tail(Head(window))>> \o ContextOf(Tail(window))
         ELSE ContextOf(Tail(window))

\* currentIndex is 1-based: the slice [max(0, c - 3), min(length, c + 4)) of
\* the code is the index range below.
getContextLines(ls, currentIndex) ==
    LET start == IF currentIndex - ContextSize > 1
                 THEN currentIndex - ContextSize ELSE 1
        end == IF currentIndex + ContextSize < Len(ls)
               THEN currentIndex + ContextSize ELSE Len(ls)
    IN ContextOf(SubSeq(ls, start, end))

GitChange(type, lineNumber, line, context) ==
    [type |-> type, lineNumber |-> lineNumber, content |-> Tail(line),
     context |-> context]

IsAdditionLine(line) ==
    StartsWith(line, <<"+">>) /\ ~StartsWith(line, <<"+", "+", "+">>)

IsDeletionLine(line) ==
    StartsWith(line, <<"-">>) /\ ~StartsWith(line, <<"-", "-", "-">>)

---------------------------------------------------------------------------
(* Inputs of the glob matcher and of the change filter.                    *)

Slash == <<"/">>

\* Patterns: the two of DEFAULT_CONFIG that the claims name, a single-star
\* and a "?" pattern, two that do not compile after translation, and one
\* with a "|" between two single-star patterns.
PatTsAnyDepth == <<"*", "*", "/", "*", ".", "t", "s">>
PatTestAnyDepth == <<"*", "*", "/", "*", ".", "t", "e", "s", "t", ".", "*">>
PatTsSingle == <<"*", ".", "t", "s">>
PatQuestion == <<"?", ".", "t", "s">>
PatOpenBracket == <<"[", "a">>
PatOpenParen == <<"(", "a">>
PatAlternation == <<"*", ".", "j", "s", "|", "*", ".", "t", "s">>

GlobPatterns ==
    {PatTsAnyDepth, PatTestAnyDepth, PatTsSingle, PatQuestion,
     PatOpenBracket, PatOpenParen, PatAlternation}

PathDeepTs == <<"s", "r", "c", "/", "d", "e", "e", "p", "/", "n", "e", "s", "t", "e", "d", "/", "f", "i", "l", "e", ".", "t", "s">>
PathSrcTsx == <<"s", "r", "c", "/", "f", "i", "l", "e", ".", "t", "s", "x">>
PathSrcTs == <<"s", "r", "c", "/", "f", "i", "l", "e", ".", "t", "s">>
PathFileTs == <<"f", "i", "l", "e", ".", "t", "s">>
PathATestTs == <<"a", ".", "t", "e", "s", "t", ".", "t", "s">>
PathSrcTestTs == <<"s", "r", "c", "/", "a", ".", "t", "e", "s", "t", ".", "t", "s">>

DirNames == {<<"s", "r", "c">>, <<"d", "e", "e", "p">>}
FileTs == <<"f", "i", "l", "e", ".", "t", "s">>

\* dir/dir/.../file.ts for the directory sequence ds.
RECURSIVE Under(_, _)
Under(ds, file) ==
    IF ds = <<>> THEN file ELSE Head(ds) \o Slash \o Under(Tail(ds), file)

\* Every file.ts below 1..MaxDepth directories.
NestedTsPaths ==
    {Under(ds, FileTs) : ds \in UNION {[1..k -> DirNames] : k \in 1..MaxDepth}}

GlobPaths ==
    NestedTsPaths \cup
    {PathDeepTs, PathSrcTsx, PathSrcTs, PathFileTs, PathATestTs, PathSrcTestTs}

FilterPaths ==
    {PathDeepTs, PathSrcTsx, PathSrcTs, PathFileTs, PathATestTs, PathSrcTestTs}

\* A pattern list: undefined, or an array of up to MaxPatterns patterns.
Undefined == [present |-> FALSE, items |-> <<>>]
Array(items) == [present |-> TRUE, items |-> items]

FilterPatterns ==
    {PatTsAnyDepth, PatTestAnyDepth, PatTsSingle, PatOpenBracket}

PatternLists ==
    {Undefined} \cup {Array(ps) : ps \in SeqsUpTo(FilterPatterns, MaxPatterns)}

Configs ==
    [includePatterns : PatternLists, excludePatterns : PatternLists]

NoConfig == [includePatterns |-> Undefined, excludePatterns |-> Undefined]

FilterIdle ==
    /\ config = NoConfig
    /\ filePath = <<>>
    /\ pattern = <<>>
    /\ matched = "none"
    /\ verdict = "none"

---------------------------------------------------------------------------
(* Responses of the backend.  A response is put together from blocks, one  *)
(* per heading, each heading at the start of a line: "Heading: body" for   *)
(* the text sections, "Heading:" followed by "- item" lines for the list   *)
(* sections.  The bodies are those of the documented scenario.             *)

SectionNames ==
    <<"summary", "purpose", "keyChanges", "impact", "documentation",
      "suggestions">>

ListSections == {"keyChanges", "suggestions"}

\* Position of a section in the canonical order.
Rank(name) == CHOOSE k \in 1..Len(SectionNames) : SectionNames[k] = name

HeadingOf(name) ==
    CASE name = "summary"       -> <<"Summary">>
      [] name = "purpose"       -> <<"Purpose">>
      [] name = "keyChanges"    -> <<"Key", " ", "Changes">>
      [] name = "impact"        -> <<"Impact">>
      [] name = "documentation" -> <<"Documentation">>
      [] name = "suggestions"   -> <<"Suggestions">>

\* The body of a text section, the items of a list section.
BodyOf(name) ==
    CASE name = "summary"       -> <<"fixes", " ", "bug">>
      [] name = "purpose"       -> <<"stability">>
      [] name = "keyChanges"    -> << <<"fix", " ", "A">>, <<"fix", " ", "B">> >>
      [] name = "impact"        -> <<"low", " ", "risk">>
      [] name = "documentation" -> <<"see", " ", "notes">>
      [] name = "suggestions"   -> << <<"add", " ", "tests">> >>

RECURSIVE BulletLines(_)
BulletLines(items) ==
    IF items = <<>> THEN <<>>
    ELSE <<"\n", "-", " ">> \o Head(items) \o BulletLines(Tail(items))

Block(name) ==
    IF name \in ListSections
    THEN HeadingOf(name) \o <<":">> \o BulletLines(BodyOf(name))
    ELSE HeadingOf(name) \o <<":", " ">> \o BodyOf(name)

RECURSIVE JoinBlocks(_)
JoinBlocks(order) ==
    IF order = <<>> THEN <<>>
    ELSE IF Len(order) = 1 THEN Block(Head(order))
    ELSE Block(Head(order)) \o <<"\n">> \o JoinBlocks(Tail(order))

Render(lay) ==
    JoinBlocks(lay.order) \o (IF lay.newlineAtEnd THEN <<"\n">> ELSE <<>>)

Layouts ==
    [order : SeqsUpTo(Range(SectionNames), MaxSections),
     newlineAtEnd : BOOLEAN]

Absent == [found |-> FALSE, value |-> <<>>]

NoSections == [n \in Range(SectionNames) |-> Absent]

ExtractIdle ==
    /\ layout = [order |-> <<>>, newlineAtEnd |-> FALSE]
    /\ response = <<>>
    /\ extracted = FALSE
    /\ sections = NoSections

---------------------------------------------------------------------------
(* Diff texts: up to MaxLines lines, each followed by a newline.           *)

HunkOneThree == <<"@", "@", " ", "-", "1", ",", "2", " ", "+", "1", ",", "3", " ", "@", "@">>
HunkFive == <<"@", "@", " ", "-", "4", " ", "+", "5", " ", "@", "@">>
HunkMalformed == <<"@", "@", " ", "bad">>
LineContext1 == <<" ", "line1">>
LineContext3 == <<" ", "line3">>
LineAdded2 == <<"+", "line2">>
LineAddedIncrement == <<"+", "+", "+", "i">>
LineDeleted == <<"-", "old">>
LineDeletedDecrement == <<"-", "-", "-", "j">>

DiffLines ==
    {HunkOneThree, HunkFive, HunkMalformed, LineContext1, LineContext3,
     LineAdded2, LineAddedIncrement, LineDeleted, LineDeletedDecrement}

RECURSIVE JoinLines(_)
JoinLines(ls) ==
    IF ls = <<>> THEN <<>> ELSE Head(ls) \o <<"\n">> \o JoinLines(Tail(ls))

DiffTexts == {JoinLines(ls) : ls \in SeqsUpTo(DiffLines, MaxLines)}

DiffIdle ==
    /\ diffOutput = <<>>
    /\ lines = <<>>
    /\ i = 1
    /\ currentLineNumber = 0
    /\ changes = <<>>

---------------------------------------------------------------------------
(* Inputs of the analysis operations.                                      *)

AnalyzePaths == {PathSrcTs, PathFileTs, PathATestTs}

\* The include and exclude patterns that the claims name, no patterns at
\* all, and a rule set with a pattern that does not compile.
AnalyzeConfigs ==
    { [includePatterns |-> Array(<<PatTsAnyDepth>>),
       excludePatterns |-> Array(<<PatTestAnyDepth>>)],
      NoConfig,
      [includePatterns |-> Array(<<PatTsSingle>>),
       excludePatterns |-> Array(<<PatOpenBracket>>)] }

AnalyzeResponses ==
    { Render([order |-> <<"summary", "purpose">>, newlineAtEnd |-> TRUE]),
      Render([order |-> <<"keyChanges", "suggestions">>,
              newlineAtEnd |-> TRUE]),
      <<"looks", " ", "fine">> }

BatchOperations ==
    {"analyzeCommitRange", "analyzeStagedChanges", "analyzeUnstagedChanges"}

AnalyzeIdle ==
    /\ operation = "none"
    /\ diffs = <<>>
    /\ index = 1
    /\ phase = "idle"
    /\ trace = <<>>
    /\ results = <<>>

NoOptions == [auto |-> FALSE, output |-> FALSE]

ListIdle ==
    /\ sectionText = <<>>
    /\ itemized = FALSE
    /\ listItems = <<>>

CliIdle ==
    /\ options = NoOptions
    /\ updateReadme = FALSE
    /\ thrown = <<>>
    /\ console = <<>>
    /\ written = <<>>
    /\ readme = "untouched"

\* No configuration manager and no provider exist.
ConfigIdle ==
    /\ env = <<>>
    /\ configFile = [exists |-> FALSE]
    /\ managerConfig = <<>>

ProviderIdle ==
    /\ aiProvider = "none"
    /\ posted = <<>>
    /\ upstream = [kind |-> "none"]
    /\ settled = [state |-> "none"]

FilesIdle ==
    /\ history = <<>>
    /\ hook = [exists |-> FALSE]
    /\ readmeFile = [exists |-> FALSE]
    /\ readmeAtStart = [exists |-> FALSE]

ToolIdle ==
    /\ ConfigIdle
    /\ ProviderIdle
    /\ FilesIdle

---------------------------------------------------------------------------
(* The glob matcher on its own: one call of matchesPattern per step.       *)

InitGlob ==
    /\ filePath \in GlobPaths
    /\ pattern = <<>>
    /\ matched = "none"
    /\ config = NoConfig
    /\ verdict = "none"
    /\ ExtractIdle
    /\ DiffIdle
    /\ AnalyzeIdle
    /\ CliIdle
    /\ ListIdle
    /\ ToolIdle

MatchesPattern ==
    \E p \in GlobPatterns :
       /\ pattern' = p
       /\ matched' = matchesPattern(filePath, p)
       /\ UNCHANGED <<config, filePath, verdict, extractVars, diffVars, analyzeVars,
                   cliVars, listVars, toolVars>>

NextGlob == MatchesPattern

SpecGlob == InitGlob /\ [][NextGlob]_vars

---------------------------------------------------------------------------
(* The change filter: one call of shouldAnalyzeFile on a configured rule   *)
(* set.                                                                    *)

InitFilter ==
    /\ config \in Configs
    /\ filePath \in FilterPaths
    /\ pattern = <<>>
    /\ matched = "none"
    /\ verdict = "none"
    /\ ExtractIdle
    /\ DiffIdle
    /\ AnalyzeIdle
    /\ CliIdle
    /\ ListIdle
    /\ ToolIdle

ShouldAnalyzeFile ==
    /\ verdict = "none"
    /\ verdict' = shouldAnalyzeFile(filePath, config)
    /\ UNCHANGED <<config, filePath, pattern, matched, extractVars, diffVars, analyzeVars,
                   cliVars, listVars, toolVars>>

NextFilter == ShouldAnalyzeFile \/ MatchesPattern

SpecFilter == InitFilter /\ [][NextFilter]_vars

---------------------------------------------------------------------------
(* Section extraction: one call of extractSections on a response.          *)

InitExtract ==
    /\ layout \in Layouts
    /\ response = Render(layout)
    /\ extracted = FALSE
    /\ sections = NoSections
    /\ FilterIdle
    /\ DiffIdle
    /\ AnalyzeIdle
    /\ CliIdle
    /\ ListIdle
    /\ ToolIdle

ExtractSections ==
    /\ ~extracted
    /\ extracted' = TRUE
    /\ sections' = extractSections(response)
    /\ UNCHANGED <<layout, response, filterVars, diffVars, analyzeVars,
                   cliVars, listVars, toolVars>>

NextExtract == ExtractSections

SpecExtract == InitExtract /\ [][NextExtract]_vars

---------------------------------------------------------------------------
(* Section extraction and parseAnalysisResponse on free text: every text   *)
(* of up to MaxTextLen lexemes, with or without headings, with truncated   *)
(* and with repeated headings.                                             *)

TextLexemes ==
    {"Summary", "Key", "Changes", "Documentation", ":", " ", "\n", "x"}

FreeTexts == SeqsUpTo(TextLexemes, MaxTextLen)

InitExtractText ==
    /\ response \in FreeTexts
    /\ layout = [order |-> <<>>, newlineAtEnd |-> FALSE]
    /\ extracted = FALSE
    /\ sections = NoSections
    /\ FilterIdle
    /\ DiffIdle
    /\ AnalyzeIdle
    /\ CliIdle
    /\ ListIdle
    /\ ToolIdle

\* parseAnalysisResponse on the response of the backend for PathSrcTs.
ParseAnalysisResponse ==
    /\ results = <<>>
    /\ results' = <<parseAnalysisResponse(PathSrcTs,
                                          detectLanguage(PathSrcTs), response)>>
    /\ UNCHANGED <<operation, diffs, index, phase, trace, filterVars,
                   extractVars, diffVars, cliVars, listVars, toolVars>>

NextExtractText == ExtractSections \/ ParseAnalysisResponse

SpecExtractText == InitExtractText /\ [][NextExtractText]_vars

---------------------------------------------------------------------------
(* Section extraction on well-formed responses: the six headings, each     *)
(* once and at the start of a line, in canonical order, each with a body.  *)
(* A text body is some lexemes, a list body some bullet lines, each a      *)
(* marker and the text of the item.                                        *)

TextBodies ==
    { <<"fixes", " ", "bug">>, <<"first", "\n", "second">>, <<"-">> }

BulletLinePool ==
    { [marker |-> <<"-", " ">>, text |-> <<"fix", " ", "A">>],
      [marker |-> <<"1", ".", " ">>, text |-> <<"fix", " ", "B">>],
      [marker |-> <<"-">>, text |-> <<>>] }

ListBodies(n) == UNION {[1..k -> BulletLinePool] : k \in 1..n}

WellFormedBodies ==
    [summary : TextBodies, purpose : TextBodies, impact : TextBodies,
     documentation : TextBodies,
     keyChanges : ListBodies(MaxItems), suggestions : ListBodies(1)]

RECURSIVE RenderBulletLines(_)
RenderBulletLines(ls) ==
    IF ls = <<>> THEN <<>>
    ELSE <<"\n">> \o Head(ls).marker \o Head(ls).text
            \o RenderBulletLines(Tail(ls))

BlockWith(name, body) ==
    IF name \in ListSections
    THEN HeadingOf(name) \o <<":">> \o RenderBulletLines(body)
    ELSE HeadingOf(name) \o <<":", " ">> \o body

RECURSIVE JoinBlocksWith(_, _)
JoinBlocksWith(order, bodies) ==
    IF order = <<>> THEN <<>>
    ELSE IF Len(order) = 1 THEN BlockWith(Head(order), bodies[Head(order)])
    ELSE BlockWith(Head(order), bodies[Head(order)]) \o <<"\n">>
            \o JoinBlocksWith(Tail(order), bodies)

RenderWith(lay) ==
    JoinBlocksWith(lay.order, lay.bodies)
       \o (IF lay.newlineAtEnd THEN <<"\n">> ELSE <<>>)

WellFormedLayouts ==
    [order : {SectionNames}, newlineAtEnd : BOOLEAN, bodies : WellFormedBodies]

InitWellFormed ==
    /\ layout \in WellFormedLayouts
    /\ response = RenderWith(layout)
    /\ extracted = FALSE
    /\ sections = NoSections
    /\ FilterIdle
    /\ DiffIdle
    /\ AnalyzeIdle
    /\ CliIdle
    /\ ListIdle
    /\ ToolIdle

NextWellFormed == ExtractSections

SpecWellFormed == InitWellFormed /\ [][NextWellFormed]_vars

---------------------------------------------------------------------------
(* List itemization: one call of extractListItems on a section text of up  *)
(* to MaxListLen lexemes: markers, a dot, white space, line ends, a word.  *)

ListLexemes == {"-", "1", ".", " ", "\n", "x"}

ListTexts == SeqsUpTo(ListLexemes, MaxListLen)

InitListItems ==
    /\ sectionText \in ListTexts
    /\ itemized = FALSE
    /\ listItems = <<>>
    /\ FilterIdle
    /\ ExtractIdle
    /\ DiffIdle
    /\ AnalyzeIdle
    /\ CliIdle
    /\ ToolIdle

ExtractListItems ==
    /\ ~itemized
    /\ itemized' = TRUE
    /\ listItems' = extractListItems(sectionText)
    /\ UNCHANGED <<sectionText, filterVars, extractVars, diffVars,
                   analyzeVars, cliVars, toolVars>>

NextListItems == ExtractListItems

SpecListItems == InitListItems /\ [][NextListItems]_vars

---------------------------------------------------------------------------
(* The diff parser: the text is split, then one line is scanned per step.  *)

InitDiff ==
    /\ diffOutput \in DiffTexts
    /\ lines = SplitLines(diffOutput, <<>>)
    /\ i = 1
    /\ currentLineNumber = 0
    /\ changes = <<>>
    /\ FilterIdle
    /\ ExtractIdle
    /\ AnalyzeIdle
    /\ CliIdle
    /\ ListIdle
    /\ ToolIdle

ScanHunkHeader ==
    /\ i <= Len(lines)
    /\ StartsWith(lines[i], <<"@", "@">>)
    /\ currentLineNumber' =
          IF HunkMatch(lines[i]).found
          THEN ParseInt(HunkMatch(lines[i]).start)
          ELSE currentLineNumber
    /\ i' = i + 1
    /\ UNCHANGED <<diffOutput, lines, changes, filterVars, extractVars,
                   analyzeVars, cliVars, listVars, toolVars>>

ScanAddition ==
    /\ i <= Len(lines)
    /\ ~StartsWith(lines[i], <<"@", "@">>)
    /\ IsAdditionLine(lines[i])
    /\ changes' = Append(changes,
          GitChange("addition", currentLineNumber, lines[i],
                    getContextLines(lines, i)))
    /\ currentLineNumber' = currentLineNumber + 1
    /\ i' = i + 1
    /\ UNCHANGED <<diffOutput, lines, filterVars, extractVars, analyzeVars,
                   cliVars, listVars, toolVars>>

\* A deletion branch that advances the counter as the addition branch does.
ScanDeletionAdvancing ==
    /\ i <= Len(lines)
    /\ ~StartsWith(lines[i], <<"@", "@">>)
    /\ ~IsAdditionLine(lines[i])
    /\ IsDeletionLine(lines[i])
    /\ changes' = Append(changes,
          GitChange("deletion", currentLineNumber, lines[i],
                    getContextLines(lines, i)))
    /\ currentLineNumber' = currentLineNumber + 1
    /\ i' = i + 1
    /\ UNCHANGED <<diffOutput, lines, filterVars, extractVars, analyzeVars,
                   cliVars, listVars, toolVars>>

ScanDeletion ==
    /\ i <= Len(lines)
    /\ ~StartsWith(lines[i], <<"@", "@">>)
    /\ ~IsAdditionLine(lines[i])
    /\ IsDeletionLine(lines[i])
    /\ changes' = Append(changes,
          GitChange("deletion", currentLineNumber, lines[i],
                    getContextLines(lines, i)))
    /\ i' = i + 1
    /\ UNCHANGED <<diffOutput, lines, currentLineNumber, filterVars,
                   extractVars, analyzeVars,
                   cliVars, listVars, toolVars>>

ScanContext ==
    /\ i <= Len(lines)
    /\ StartsWith(lines[i], <<" ">>)
    /\ currentLineNumber' = currentLineNumber + 1
    /\ i' = i + 1
    /\ UNCHANGED <<diffOutput, lines, changes, filterVars, extractVars,
                   analyzeVars, cliVars, listVars, toolVars>>

ScanOther ==
    /\ i <= Len(lines)
    /\ ~StartsWith(lines[i], <<"@", "@">>)
    /\ ~IsAdditionLine(lines[i])
    /\ ~IsDeletionLine(lines[i])
    /\ ~StartsWith(lines[i], <<" ">>)
    /\ i' = i + 1
    /\ UNCHANGED <<diffOutput, lines, currentLineNumber, changes, filterVars,
                   extractVars, analyzeVars,
                   cliVars, listVars, toolVars>>

NextDiff ==
    \/ ScanHunkHeader
    \/ ScanAddition
    \/ ScanDeletion
    \/ ScanContext
    \/ ScanOther

SpecDiff == InitDiff /\ [][NextDiff]_vars

---------------------------------------------------------------------------
(* Claims about the glob matcher and the change filter.                    *)

HasLeadingDirectory(path) == \E k \in 2..Len(path) : path[k] = "/"

DotTs == <<".", "t", "s">>

\* Whether some pattern of the list matches the path.
AnyMatches(path, list) ==
    \E p \in Range(list.items) : matchesPattern(path, p) = "true"

Malformed(pat) == ~NewRegExp(<<"^">> \o GlobToRegexSource(pat) \o <<"$">>).ok

\* C1 (as claimed): the pattern '**/*.ts' matches every path that ends in
\* '.ts' below one or more directories, at any depth, and rejects
\* 'src/file.tsx'.
C1_DoubleStarCrossesSeparators ==
    (matched # "none" /\ pattern = PatTsAnyDepth) =>
        /\ (EndsWith(filePath, DotTs) /\ HasLeadingDirectory(filePath))
              => matched = "true"
        /\ filePath = PathSrcTsx => matched = "false"

\* C2 (as claimed): with the include list absent or empty, every path that
\* no exclude pattern matches is accepted; with include patterns of which
\* none matches, the path is rejected.
C2_NoIncludeAcceptsUnexcluded ==
    verdict # "none" =>
        LET noInclude == \/ ~config.includePatterns.present
                         \/ config.includePatterns.items = <<>>
        IN /\ (noInclude /\ ~AnyMatches(filePath, config.excludePatterns))
                 => verdict = "true"
           /\ (~noInclude /\ ~AnyMatches(filePath, config.includePatterns))
                 => verdict = "false"

\* C3 (as claimed): a path that some exclude pattern matches is rejected,
\* whatever the include patterns are.
C3_ExcludeTakesPrecedence ==
    (verdict # "none" /\ AnyMatches(filePath, config.excludePatterns))
        => verdict = "false"

\* C4 (as claimed): matching never throws, a pattern that is malformed
\* after translation matches no path, and shouldAnalyzeFile never fails
\* because of a configured pattern.
C4_MalformedPatternNeverThrows ==
    /\ matched # "throw"
    /\ (matched # "none" /\ Malformed(pattern)) => matched = "false"
    /\ verdict # "throw"

---------------------------------------------------------------------------
(* Claims about section extraction.                                        *)

\* The headings of the response are in canonical order (each at most once).
CanonicalOrder(order) ==
    \A j, k \in 1..Len(order) : j < k => Rank(order[j]) < Rank(order[k])

\* A line of txt starts with the heading of the section.
HasHeadingLine(txt, name) ==
    LET words == [k \in 1..Len(HeadingOf(name)) |-> Fold(HeadingOf(name)[k])]
    IN \E k \in 1..Len(txt) :
          /\ HeadingAt(txt, k, words)
          /\ (k = 1 \/ txt[k - 1] = "\n")

\* The extracted value of a section holds the heading line of section other.
HoldsHeadingOf(name, other) ==
    IF name \in ListSections
    THEN \E k \in 1..Len(sections[name].value) :
            HasHeadingLine(sections[name].value[k], other)
    ELSE HasHeadingLine(sections[name].value, other)

\* C6 (as claimed): of a response whose headings each start a line, in
\* canonical order, every section with a heading is extracted as its
\* trimmed body (a list section as its items) and every other section is
\* absent, with or without a newline at the end of the text.
C6_SectionEndsAtNextHeadingOrEndOfText ==
    (extracted /\ CanonicalOrder(layout.order)) =>
        \A name \in Range(SectionNames) :
           IF name \in Range(layout.order)
           THEN sections[name] = [found |-> TRUE, value |-> BodyOf(name)]
           ELSE ~sections[name].found

\* C7 (as claimed): in whatever order the headings appear, no extracted
\* section holds the heading line of another section.
C7_SectionStopsAtAnyOtherHeading ==
    extracted =>
        \A name, other \in Range(SectionNames) :
           (name # other /\ sections[name].found)
               => ~HoldsHeadingOf(name, other)

---------------------------------------------------------------------------
(* Claims about extraction from free text.                                 *)

\* The text holds one of the six heading words (in any letter case).
ContainsHeadingWord(text) ==
    \E k \in 1..Len(text) :
       \/ Fold(text[k]) \in {"summary", "purpose", "impact", "documentation",
                             "suggestions"}
       \/ /\ k + 2 <= Len(text)
          /\ Fold(text[k]) = "key"
          /\ text[k + 1] = " "
          /\ Fold(text[k + 2]) = "changes"

\* What extractSections can return for a section: nothing, or a value.
IsSectionResult(m) ==
    /\ DOMAIN m = {"found", "value"}
    /\ m.found \in BOOLEAN
    /\ ~m.found => m.value = <<>>

\* C16: extractSections returns a result for every text, whatever its
\* headings, and for a text without any of the six heading words every
\* section is absent.
C16_ExtractionIsTotal ==
    extracted =>
       /\ DOMAIN sections = Range(SectionNames)
       /\ \A name \in Range(SectionNames) : IsSectionResult(sections[name])
       /\ ~ContainsHeadingWord(response) =>
             \A name \in Range(SectionNames) : ~sections[name].found

\* Extraction has run on a text without heading words.
C16_ExtractedFromHeadinglessText ==
    /\ extracted
    /\ response = <<"x", "\n", ":", "x">>

\* The fixed strings of parseAnalysisResponse.
NoSummaryProvided == <<"No summary provided">>
NoPurposeIdentified == <<"No purpose identified">>
ImpactNotSpecified == <<"Impact not specified">>

FixedPlaceholders ==
    {NoSummaryProvided, NoPurposeIdentified, ImpactNotSpecified}

AnalysisFields ==
    {"file", "language", "summary", "purpose", "keyChanges", "impact",
     "documentation", "suggestions"}

\* The defaults that the code and the claim agree on: the placeholders of
\* summary, purpose and impact, the empty lists, and no field undefined.
DefaultsOf(result, found) ==
    /\ DOMAIN result = AnalysisFields
    /\ ~found.summary.found => result.summary = NoSummaryProvided
    /\ ~found.purpose.found => result.purpose = NoPurposeIdentified
    /\ ~found.impact.found => result.impact = ImpactNotSpecified
    /\ ~found.keyChanges.found => result.keyChanges = <<>>
    /\ ~found.suggestions.found => result.suggestions = <<>>

\* C18 (as claimed): in the result of parseAnalysisResponse every one of
\* summary, purpose, impact and documentation whose section was not found
\* holds a fixed placeholder, the same for every response text, a list
\* whose section was not found is empty, and no field is undefined.
C18_AbsentSectionsHoldFixedPlaceholders ==
    results # <<>> =>
       /\ DefaultsOf(results[1], extractSections(response))
       /\ ~extractSections(response).documentation.found =>
             results[1].documentation \in FixedPlaceholders

\* C18 (amended): summary, purpose and impact hold their fixed
\* placeholder when their section was not found, a list whose section was
\* not found is empty, no field is undefined, and documentation, when its
\* section was not found, holds the response text and no placeholder.
C18_AbsentSectionsHoldDefaults ==
    results # <<>> =>
       /\ DefaultsOf(results[1], extractSections(response))
       /\ ~extractSections(response).documentation.found =>
             results[1].documentation = response

\* A response without any heading has been parsed.
C18_ParsedWithoutSections ==
    /\ results # <<>>
    /\ response = <<"x", " ", "x">>
    /\ results[1].summary = NoSummaryProvided

\* C19: whenever the Documentation section of the response is absent or
\* empty, and so whenever all six sections are absent, the documentation
\* field of the result is the response text, unchanged.
C19_DocumentationFallsBackToTheResponse ==
    results # <<>> =>
       LET doc == extractSections(response).documentation
       IN (~doc.found \/ doc.value = <<>>) =>
             results[1].documentation = response

\* A response whose Documentation section is there and empty was parsed.
C19_ParsedWithEmptyDocumentation ==
    /\ results # <<>>
    /\ extractSections(response).documentation = [found |-> TRUE, value |-> <<>>]
    /\ response # <<>>

---------------------------------------------------------------------------
(* Claims about extraction from well-formed responses.                     *)

TextSections == Range(SectionNames) \ ListSections

\* C17 (as claimed): of a response with the six headings in canonical
\* order, each with a non-empty body, all six sections are extracted and
\* are non-empty, and each list section holds one item per bullet line of
\* its body.
C17_WellFormedResponseIsExtracted ==
    extracted =>
       /\ \A name \in Range(SectionNames) :
             sections[name].found /\ sections[name].value # <<>>
       /\ \A name \in ListSections :
             Len(sections[name].value) = Len(layout.bodies[name])

---------------------------------------------------------------------------
(* Claims about list itemization.                                          *)

\* A match of [-*+0-9]+\.?\s* : bullets and digits, then at most one dot,
\* then white space.
IsListMarker(m) ==
    \E b \in 1..Len(m) : \E d \in {0, 1} :
       /\ b + d <= Len(m)
       /\ \A k \in 1..b : m[k] \in {"-", "*", "+"} \/ IsDigit(m[k])
       /\ d = 1 => m[b + 1] = "."
       /\ \A k \in (b + d + 1)..Len(m) : IsSpace(m[k])

\* The line without the longest list marker that it starts with.
WithoutListMarker(line) ==
    LET ks == {k \in 1..Len(line) : IsListMarker(SubSeq(line, 1, k))}
    IN IF ks = {} THEN line ELSE SubSeq(line, Max(ks) + 1, Len(line))

\* The section text up to its first line end, and what follows it.
FirstLine(text) ==
    LET ends == {k \in 1..Len(text) : text[k] = "\n"}
    IN IF ends = {} THEN text ELSE SubSeq(text, 1, Min(ends) - 1)

AfterFirstLine(text) ==
    LET ends == {k \in 1..Len(text) : text[k] = "\n"}
    IN IF ends = {} THEN <<>> ELSE SubSeq(text, Min(ends) + 1, Len(text))

\* The items that the lines of a text stand for, in the order of the
\* lines: a line without its surrounding white space and its marker,
\* unless nothing is left of it.
RECURSIVE ItemsOfLines(_)
ItemsOfLines(text) ==
    LET item == Trim(WithoutListMarker(Trim(FirstLine(text))))
        rest == IF \E k \in 1..Len(text) : text[k] = "\n"
                THEN ItemsOfLines(AfterFirstLine(text)) ELSE <<>>
    IN IF item = <<>> THEN rest ELSE <<item>> \o rest

\* C20: the items of a section text are those of its lines, in the order
\* of the lines, each without the list marker that its line starts with;
\* every item is non-empty and neither starts nor ends with white space,
\* and a blank line gives no item.
C20_ListItemsAreStrippedLinesInOrder ==
    itemized =>
       /\ listItems = ItemsOfLines(sectionText)
       /\ \A k \in 1..Len(listItems) :
             /\ listItems[k] # <<>>
             /\ ~IsSpace(Head(listItems[k]))
             /\ ~IsSpace(listItems[k][Len(listItems[k])])
       /\ (\A k \in 1..Len(sectionText) : IsSpace(sectionText[k]))
             => listItems = <<>>

\* Itemization has run on a bullet line, a blank line and a plain line.
C20_ItemizedBulletsAndBlankLine ==
    /\ itemized
    /\ sectionText = <<"-", "x", "\n", "\n", "x">>
    /\ listItems = << <<"x">>, <<"x">> >>

---------------------------------------------------------------------------
(* One analysis operation of a CodeAnalyzer.  The operation is suspended   *)
(* while it awaits the backend; the steps between two awaits are one       *)
(* action.                                                                 *)

InitAnalyze ==
    /\ config \in AnalyzeConfigs
    /\ filePath = <<>>
    /\ pattern = <<>>
    /\ matched = "none"
    /\ verdict = "none"
    /\ AnalyzeIdle
    /\ options \in [auto : BOOLEAN, output : BOOLEAN]
    /\ updateReadme \in BOOLEAN
    /\ thrown = <<>>
    /\ console = <<>>
    /\ written = <<>>
    /\ readme = "untouched"
    /\ ListIdle
    /\ ToolIdle
    /\ ExtractIdle
    /\ DiffIdle

\* The git client hands over its diffs and analyzeDiffs starts its loop.
AnalyzeBatch(name) ==
    /\ phase = "idle"
    /\ \E ds \in SeqsUpTo(AnalyzePaths, MaxFiles) : diffs' = ds
    /\ operation' = name
    /\ index' = 1
    /\ phase' = "loop"
    /\ results' = <<>>
    /\ UNCHANGED <<trace, filterVars, extractVars, diffVars, cliVars, listVars, toolVars>>

AnalyzeCommitRange == AnalyzeBatch("analyzeCommitRange")

AnalyzeStagedChanges == AnalyzeBatch("analyzeStagedChanges")

AnalyzeUnstagedChanges == AnalyzeBatch("analyzeUnstagedChanges")

\* analyzeFile reads the file, builds the prompt and calls the backend.
AnalyzeFile ==
    /\ phase = "idle"
    /\ \E f \in AnalyzePaths :
          /\ diffs' = <<f>>
          /\ trace' = Append(trace, RequestEvent(f))
    /\ operation' = "analyzeFile"
    /\ index' = 1
    /\ phase' = "awaiting"
    /\ results' = <<>>
    /\ UNCHANGED <<filterVars, extractVars, diffVars, cliVars, listVars, toolVars>>

\* The command was given none of --commit, --staged, --unstaged, --file.
AnalyzeNothing ==
    /\ phase = "idle"
    /\ phase' = "done"
    /\ console' = Append(console, SpinnerFail(PleaseSpecify))
    /\ UNCHANGED <<operation, diffs, index, trace, results, options,
                   updateReadme, thrown, written, readme, filterVars,
                   extractVars, diffVars, listVars, toolVars>>

\* A loop turn that does not await the backend: it sends the request and
\* goes on to the next file.
AnalyzeDiffsNextUnawaited ==
    /\ phase = "loop"
    /\ index <= Len(diffs)
    /\ LET file == diffs[index]
           accepted == shouldAnalyzeFile(file, config)
       IN /\ trace' = trace \o <<FilterEvent(file, accepted)>>
                \o (IF Dispatches(accepted)
                    THEN <<RequestEvent(file)>> ELSE <<>>)
          /\ phase' = IF accepted = "throw" THEN "threw" ELSE "loop"
          /\ index' = IF accepted # "throw" THEN index + 1 ELSE index
          /\ thrown' = IF accepted = "throw"
                       THEN InvalidRegularExpression ELSE thrown
    /\ UNCHANGED <<operation, diffs, results, options, updateReadme, console,
                   written, readme, filterVars, extractVars, diffVars,
                   listVars, toolVars>>

\* One turn of the loop of analyzeDiffs, up to its await or to the next
\* turn; an exception of the filter ends the operation.
AnalyzeDiffsNext ==
    /\ phase = "loop"
    /\ index <= Len(diffs)
    /\ LET file == diffs[index]
           accepted == shouldAnalyzeFile(file, config)
       IN /\ trace' = trace \o <<FilterEvent(file, accepted)>>
                \o (IF Dispatches(accepted)
                    THEN <<RequestEvent(file)>> ELSE <<>>)
          /\ phase' = CASE accepted = "throw" -> "threw"
                        [] Dispatches(accepted) -> "awaiting"
                        [] OTHER -> "loop"
          /\ index' = IF accepted # "throw" /\ ~Dispatches(accepted)
                      THEN index + 1 ELSE index
          /\ thrown' = IF accepted = "throw"
                       THEN InvalidRegularExpression ELSE thrown
    /\ UNCHANGED <<operation, diffs, results, options, updateReadme, console,
                   written, readme, filterVars, extractVars, diffVars,
                   listVars, toolVars>>

\* The backend answers: the response is parsed and the operation goes on.
BackendResponds ==
    /\ phase = "awaiting"
    /\ \E text \in AnalyzeResponses :
          results' = Push(results,
             parseAnalysisResponse(diffs[index], detectLanguage(diffs[index]),
                                   text))
    /\ phase' = IF operation = "analyzeFile" THEN "returned" ELSE "loop"
    /\ index' = IF operation = "analyzeFile" THEN index ELSE index + 1
    /\ UNCHANGED <<operation, diffs, trace, filterVars, extractVars,
                   diffVars, cliVars, listVars, toolVars>>

\* The backend call fails: makeRequest wraps the cause in an Error, which
\* nothing catches before the command.
BackendFails ==
    /\ phase = "awaiting"
    /\ phase' = "threw"
    /\ \E cause \in BackendCauses : thrown' = RequestFailed(cause)
    /\ UNCHANGED <<operation, diffs, index, trace, results, options,
                   updateReadme, console, written, readme, filterVars,
                   extractVars, diffVars, listVars, toolVars>>

AnalyzeDiffsReturn ==
    /\ phase = "loop"
    /\ index > Len(diffs)
    /\ phase' = "returned"
    /\ UNCHANGED <<operation, diffs, index, trace, results, filterVars,
                   extractVars, diffVars, cliVars, listVars, toolVars>>

\* A command that puts the report out whether or not --auto is given.
AnalyzeCodeCompletesIgnoringAuto ==
    /\ phase = "returned"
    /\ phase' = "done"
    /\ LET report == generateSummaryReport(results)
       IN /\ console' = console \o <<SpinnerSucceed>> \o
                (IF options.output THEN <<ReportSaved>>
                 ELSE <<ConsoleLog(report)>>)
          /\ written' = IF options.output THEN report ELSE written
    /\ readme' = IF updateReadme THEN "updated" ELSE readme
    /\ UNCHANGED <<operation, diffs, index, trace, results, options,
                   updateReadme, thrown, filterVars, extractVars, diffVars,
                   listVars, toolVars>>

\* The rest of analyzeCode once the operation has returned its results:
\* the report is generated and, unless --auto, put out, and the README is
\* updated if the configuration asks for it.
AnalyzeCodeCompletes ==
    /\ phase = "returned"
    /\ phase' = "done"
    /\ LET report == generateSummaryReport(results)
       IN /\ console' = console \o <<SpinnerSucceed>> \o
                (IF options.auto THEN <<AnalyzedFiles(Len(results))>>
                 ELSE IF options.output THEN <<ReportSaved>>
                 ELSE <<ConsoleLog(report)>>)
          /\ written' = IF ~options.auto /\ options.output
                        THEN report ELSE written
    /\ readme' = IF ~options.auto /\ updateReadme THEN "updated" ELSE readme
    /\ UNCHANGED <<operation, diffs, index, trace, results, options,
                   updateReadme, thrown, filterVars, extractVars, diffVars,
                   listVars, toolVars>>

\* The operation rejected: analyzeCode fails its spinner and rethrows, the
\* command prints the message of the error and exits with status 1.
AnalyzeCodeFails ==
    /\ phase = "threw"
    /\ phase' = "exited"
    /\ console' = console \o
          <<SpinnerFail(AnalysisFailed), ErrorDuringAnalysis(thrown)>>
    /\ UNCHANGED <<operation, diffs, index, trace, results, options,
                   updateReadme, thrown, written, readme, filterVars,
                   extractVars, diffVars, listVars, toolVars>>

NextAnalyze ==
    \/ AnalyzeCommitRange
    \/ AnalyzeStagedChanges
    \/ AnalyzeUnstagedChanges
    \/ AnalyzeFile
    \/ AnalyzeNothing
    \/ AnalyzeDiffsNext
    \/ BackendResponds
    \/ BackendFails
    \/ AnalyzeDiffsReturn
    \/ AnalyzeCodeCompletes
    \/ AnalyzeCodeFails

SpecAnalyze == InitAnalyze /\ [][NextAnalyze]_vars

---------------------------------------------------------------------------
(* Claims about the analysis operations.                                   *)

IsRequest(e) == e.kind = "request"

\* The request at position k of the trace follows the evaluation of the
\* filter on its path, and the filter accepted the path.
FilteredRequest(k) ==
    /\ k > 1
    /\ trace[k - 1] = FilterEvent(trace[k].file, "true")
    /\ shouldAnalyzeFile(trace[k].file, config) = "true"

BackendFailedInBatch ==
    /\ operation \in BatchOperations
    /\ \E cause \in BackendCauses : thrown = RequestFailed(cause)

\* Some line of the text holds the lexeme.
Mentions(text, lexeme) ==
    \E l \in 1..Len(text) : \E k \in 1..Len(text[l]) : text[l][k] = lexeme

\* Some line of the text holds the path, character by character.
MentionsPath(text, path) ==
    \E l \in 1..Len(text) :
       \E a \in 1..Len(text[l]) :
          /\ a + Len(path) - 1 <= Len(text[l])
          /\ SubSeq(text[l], a, a + Len(path) - 1) = path

NumberOfRequests == Cardinality({k \in 1..Len(trace) : IsRequest(trace[k])})

\* C13 (as claimed): when the backend request for a file of a batch has
\* failed and the command has ended, there is no result for that request;
\* the command has either gone on with a notice that names the file, or
\* it has exited with an error message that names the file and the cause,
\* without a report on the console or in the output file and with the
\* README untouched.
C13_FailedFileIsNamedInTheAbort ==
    (BackendFailedInBatch /\ phase \in {"done", "exited"}) =>
       /\ Len(results) = NumberOfRequests - 1
       /\ \/ /\ phase = "done"
             /\ \E m \in 1..Len(console) :
                   MentionsPath(console[m].text, diffs[index])
          \/ /\ phase = "exited"
             /\ \E m \in 1..Len(console) :
                   /\ console[m].stream = "console.error"
                   /\ MentionsPath(console[m].text, diffs[index])
                   /\ \E cause \in BackendCauses :
                         /\ thrown = RequestFailed(cause)
                         /\ Mentions(console[m].text, cause)
             /\ written = <<>>
             /\ readme = "untouched"
             /\ \A m \in 1..Len(console) : console[m].stream # "console.log"

\* The files of the backend requests, in the order of the requests.
RECURSIVE RequestedFiles(_)
RequestedFiles(t) ==
    IF t = <<>> THEN <<>>
    ELSE IF IsRequest(Head(t)) THEN <<Head(t).file>> \o RequestedFiles(Tail(t))
    ELSE RequestedFiles(Tail(t))

\* The files of the list that the filter accepts, in the order of the list.
RECURSIVE AcceptedFiles(_)
AcceptedFiles(fs) ==
    IF fs = <<>> THEN <<>>
    ELSE IF shouldAnalyzeFile(Head(fs), config) = "true"
         THEN <<Head(fs)>> \o AcceptedFiles(Tail(fs))
         ELSE AcceptedFiles(Tail(fs))

IsPrefix(p, q) == Len(p) <= Len(q) /\ SubSeq(q, 1, Len(p)) = p

\* The requests that have neither been answered nor failed.
Outstanding ==
    NumberOfRequests - Len(results)
       - (IF \E cause \in BackendCauses : thrown = RequestFailed(cause)
          THEN 1 ELSE 0)

\* C14: during a batch operation at most one backend request is
\* outstanding, one is outstanding exactly while the operation awaits the
\* backend, so that a request is issued only when every earlier one has
\* been answered, and the requests are for the accepted files in the order
\* of the diff list.
C14_SequentialDispatch ==
    operation \in BatchOperations =>
       /\ Outstanding \in {0, 1}
       /\ Outstanding = 1 <=> phase = "awaiting"
       /\ IsPrefix(RequestedFiles(trace), AcceptedFiles(diffs))

\* The second request of a batch is outstanding, the first was answered.
C14_SecondRequestAfterFirstResponse ==
    /\ operation \in BatchOperations
    /\ phase = "awaiting"
    /\ NumberOfRequests = 2
    /\ Len(results) = 1
    /\ diffs[1] # diffs[2]

\* The files of the results, in the order of the results.
ResultFiles == [r \in 1..Len(results) |-> results[r].file]

\* The report that the command put out: the --output file, or what it
\* logged after the blank line.
ReportPutOut ==
    IF options.output THEN written ELSE Tail(console[Len(console)].text)

\* The files of the "### file" lines of a report, in order.
RECURSIVE SectionFiles(_)
SectionFiles(report) ==
    IF report = <<>> THEN <<>>
    ELSE IF Head(report) # <<>> /\ Head(Head(report)) = "### "
         THEN <<Tail(Head(report))>> \o SectionFiles(Tail(report))
         ELSE SectionFiles(Tail(report))

\* The N of the line "Analyzed N file(s) ..." of a report.
AnalyzedCount(report) ==
    LET l == CHOOSE k \in 1..Len(report) :
                report[k] # <<>> /\ Head(report[k]) = "Analyzed "
    IN report[l][2]

\* C15: when a batch operation has returned, the results are one per
\* accepted file of the diff list, in the order of the list, and none for
\* a rejected file, and one request was made per accepted file; the report
\* that the command puts out has one section per result, in that order,
\* and its "Analyzed N file(s)" line counts the sections.
C15_ResultsFollowTheDiffList ==
    (operation \in BatchOperations /\ phase \in {"returned", "done"}) =>
       /\ ResultFiles = AcceptedFiles(diffs)
       /\ RequestedFiles(trace) = AcceptedFiles(diffs)
       /\ (phase = "done" /\ ~options.auto) =>
             /\ SectionFiles(ReportPutOut) = ResultFiles
             /\ AnalyzedCount(ReportPutOut)
                   = ToString(Len(SectionFiles(ReportPutOut)))
       /\ (phase = "done" /\ options.auto) =>
             console[Len(console)] = AnalyzedFiles(Len(AcceptedFiles(diffs)))

\* A report of two different files has been put out.
C15_ReportOfTwoFiles ==
    /\ operation \in BatchOperations
    /\ phase = "done"
    /\ ~options.auto
    /\ Len(SectionFiles(ReportPutOut)) = 2
    /\ diffs[1] # diffs[2]

---------------------------------------------------------------------------
(* Claims about the diff parser.                                           *)

ParseDone == i > Len(lines)

IsHunkLine(line) == StartsWith(line, <<"@", "@">>)

\* Index of the hunk header that line k belongs to, 0 before the first.
HunkOf(ls, k) ==
    LET hs == {h \in 1..k : IsHunkLine(ls[h])}
    IN IF hs = {} THEN 0 ELSE Max(hs)

NewStart(header) == ParseInt(HunkMatch(header).start)

\* The declared number of lines of the new file; 1 when it is left out.
NewCount(header) ==
    LET rest == HunkMatch(header).rest
    IN IF Len(rest) < 2 THEN 1 ELSE ParseInt(Tail(rest))

HasMarker(line, m) == StartsWith(line, <<m>>)

\* Lines of the new file (context and addition lines) among ls[from..to].
NewFileLines(ls, from, to) ==
    Cardinality({m \in from..to : HasMarker(ls[m], " ") \/ HasMarker(ls[m], "+")})

\* The last line of the body of the hunk whose header is at h.
HunkEnd(ls, h) ==
    LET later == {m \in (h + 1)..Len(ls) : IsHunkLine(ls[m])}
    IN IF later = {} THEN Len(ls) ELSE Min(later) - 1

\* A diff of well-formed hunks of context and addition lines only: it
\* starts with a hunk header, every header parses and declares the length
\* of its body, and the hunks ascend without overlap.
ContextAndAdditionsOnly(ls) ==
    /\ ls # <<>> /\ IsHunkLine(ls[1])
    /\ \A k \in 1..Len(ls) :
          \/ ls[k] = <<>>
          \/ IsHunkLine(ls[k]) /\ HunkMatch(ls[k]).found
          \/ HasMarker(ls[k], " ")
          \/ HasMarker(ls[k], "+")
    /\ \A h \in 1..Len(ls) :
          IsHunkLine(ls[h]) =>
             /\ NewCount(ls[h]) = NewFileLines(ls, h + 1, HunkEnd(ls, h))
             /\ \A g \in 1..(h - 1) :
                   IsHunkLine(ls[g])
                      => NewStart(ls[g]) + NewCount(ls[g]) <= NewStart(ls[h])

\* The indices of the set S in ascending order.
RECURSIVE Ascending(_)
Ascending(S) ==
    IF S = {} THEN <<>> ELSE <<Min(S)>> \o Ascending(S \ {Min(S)})

\* What the claims expect of the line at index k.
ExpectedLineNumber(ls, k) ==
    NewStart(ls[HunkOf(ls, k)]) + NewFileLines(ls, HunkOf(ls, k) + 1, k - 1)

\* C8 (as claimed): of a diff of well-formed hunks of context and addition
\* lines only, the Addition records are, in order, one per addition line,
\* each numbered new-start plus the context and addition lines before it
\* in its hunk, with strictly increasing numbers; and at the end of every
\* hunk currentLine is the hunk's new-start plus new-count.
C8_AdditionLineNumbers ==
    ContextAndAdditionsOnly(lines) =>
       /\ ParseDone =>
             LET adds == Ascending({k \in 1..Len(lines) :
                                         HasMarker(lines[k], "+")})
             IN /\ Len(changes) = Len(adds)
                /\ \A r \in 1..Len(adds) :
                      /\ changes[r].type = "addition"
                      /\ changes[r].content = Tail(lines[adds[r]])
                      /\ changes[r].lineNumber
                            = ExpectedLineNumber(lines, adds[r])
                /\ \A r \in 2..Len(changes) :
                      changes[r - 1].lineNumber < changes[r].lineNumber
       /\ (i > 1 /\ (ParseDone \/ IsHunkLine(lines[i]))) =>
             LET h == HunkOf(lines, i - 1)
             IN currentLineNumber = NewStart(lines[h]) + NewCount(lines[h])

\* The lines before the first hunk header that start with "+" or "-" are
\* the "+++" / "---" file markers of the diff header.
OnlyFileMarkersInHeader(ls) ==
    \A k \in 1..Len(ls) :
       (HunkOf(ls, k) = 0 /\ (HasMarker(ls[k], "+") \/ HasMarker(ls[k], "-")))
          => \/ StartsWith(ls[k], <<"+", "+", "+">>)
             \/ StartsWith(ls[k], <<"-", "-", "-">>)

\* C9 (as claimed): every line of a hunk body whose marker is "+" yields
\* one Addition record and every one whose marker is "-" one Deletion
\* record, in order, with the line without its marker as text, whatever
\* the rest of the line is.
C9_EveryMarkedBodyLineYieldsARecord ==
    (ParseDone /\ OnlyFileMarkersInHeader(lines)) =>
       LET marked == Ascending({k \in 1..Len(lines) :
              /\ HunkOf(lines, k) > 0
              /\ ~IsHunkLine(lines[k])
              /\ (HasMarker(lines[k], "+") \/ HasMarker(lines[k], "-"))})
       IN /\ Len(changes) = Len(marked)
          /\ \A r \in 1..Len(marked) :
                /\ changes[r].type =
                      (IF HasMarker(lines[marked[r]], "+")
                       THEN "addition" ELSE "deletion")
                /\ changes[r].content = Tail(lines[marked[r]])

\* The lines on which the parser emits a record.
EmittingLines(ls) ==
    Ascending({k \in 1..Len(ls) :
                  /\ ~IsHunkLine(ls[k])
                  /\ (IsAdditionLine(ls[k]) \/ IsDeletionLine(ls[k]))})

\* The context lines of the hunk of line k within ContextSize lines of it,
\* in diff order, without their marker column.
RECURSIVE SameHunkContext(_, _, _)
SameHunkContext(ls, k, m) ==
    IF m > Len(ls) \/ m > k + ContextSize THEN <<>>
    ELSE IF m >= 1 /\ HunkOf(ls, m) = HunkOf(ls, k) /\ HasMarker(ls[m], " ")
         THEN <<Tail(ls[m])>> \o SameHunkContext(ls, k, m + 1)
         ELSE SameHunkContext(ls, k, m + 1)

ExampleDiff ==
    JoinLines(<<HunkOneThree, LineContext1, LineAdded2, LineContext3>>)

\* C10 (as claimed): the context of every change of a hunk body holds at
\* most 2 * ContextSize + 1 lines, which are the context lines of the
\* same hunk around the change, in diff order and without their marker;
\* the documented diff yields one Addition at line 2 with text 'line2'
\* and context ['line1', 'line3'].
C10_ContextStaysInsideTheHunk ==
    ParseDone =>
       /\ \A r \in 1..Len(changes) :
             LET k == EmittingLines(lines)[r]
             IN HunkOf(lines, k) > 0 =>
                   /\ Len(changes[r].context) <= 2 * ContextSize + 1
                   /\ changes[r].context
                         = SameHunkContext(lines, k, k - ContextSize)
       /\ diffOutput = ExampleDiff =>
             changes = << [type |-> "addition", lineNumber |-> 2,
                           content |-> <<"line2">>,
                           context |-> << <<"line1">>, <<"line3">> >>] >>

\* The line of the diff that the r-th emitted record was read from.
LineOfRecord(r) == EmittingLines(lines)[r]

\* A diff of well-formed hunks whose bodies hold deletion lines only.
DeletionsOnly(ls) ==
    /\ ls # <<>> /\ IsHunkLine(ls[1])
    /\ \A k \in 1..Len(ls) :
          \/ ls[k] = <<>>
          \/ IsHunkLine(ls[k]) /\ HunkMatch(ls[k]).found
          \/ HasMarker(ls[k], "-")

\* C11: of a diff whose hunk bodies hold deletion lines only, every record
\* is a Deletion numbered with the declared new-start of its hunk; and in
\* every diff the numbers of the Deletion records of one hunk never
\* decrease.
C11_DeletionsKeepTheHunkStart ==
    /\ DeletionsOnly(lines) =>
          \A r \in 1..Len(changes) :
             /\ changes[r].type = "deletion"
             /\ changes[r].lineNumber
                   = NewStart(lines[HunkOf(lines, LineOfRecord(r))])
    /\ \A r, q \in 1..Len(changes) :
          (/\ r < q
           /\ changes[r].type = "deletion" /\ changes[q].type = "deletion"
           /\ HunkOf(lines, LineOfRecord(r)) = HunkOf(lines, LineOfRecord(q)))
             => changes[r].lineNumber <= changes[q].lineNumber

\* Two deletions of one hunk of a deletion-only diff have been scanned.
C11_TwoDeletionsInOneHunk ==
    /\ ParseDone
    /\ DeletionsOnly(lines)
    /\ \E r \in 1..Len(changes) :
          /\ r + 1 <= Len(changes)
          /\ HunkOf(lines, LineOfRecord(r)) = HunkOf(lines, LineOfRecord(r + 1))
          /\ changes[r].lineNumber = 5

\* The lines among ls[from..to] on which the parser advances its counter.
CountedLines(ls, from, to) ==
    Cardinality({m \in from..to :
                    HasMarker(ls[m], " ") \/ IsAdditionLine(ls[m])})

\* C12 (as claimed): a line that starts with "@@" and is no hunk header
\* yields no record and does not end the scan, and it resets the counter
\* as every hunk header does: the records of the lines that follow it are
\* numbered from the initial value 0 and not from the count of the hunk
\* before it.
C12_MalformedHeaderResetsTheCounter ==
    /\ i <= Len(lines) + 1
    /\ \A r \in 1..Len(changes) :
          LET k == LineOfRecord(r)
              h == HunkOf(lines, k)
          IN /\ ~IsHunkLine(lines[k])
             /\ (h > 0 /\ ~HunkMatch(lines[h]).found) =>
                   changes[r].lineNumber = CountedLines(lines, h + 1, k - 1)

---------------------------------------------------------------------------
(* ConfigManager (config.ts, src/unnamed/part_001).  An object is a        *)
(* function from its keys; a key that it lacks reads as undefined.         *)

\* The value undefined, and what a template string makes of it.
JsUndefined == "undefined"

Get(object, key) ==
    IF key \in DOMAIN object THEN object[key] ELSE JsUndefined

\* { ...a, ...b }: the keys of both, the values of b where it has the key.
Spread(a, b) ==
    [k \in DOMAIN a \cup DOMAIN b |-> IF k \in DOMAIN b THEN b[k] ELSE a[k]]

\* a || b for strings: undefined and the empty string are falsy.
Falsy(string) == string = JsUndefined \/ string = ""

\* The prompts are abridged to their first words; the temperature is in
\* tenths.
DEFAULT_CONFIG ==
    [aiProvider |-> "openai",
     model |-> "gpt-4",
     maxTokens |-> 2000,
     temperature |-> 3,
     autoCommitHook |-> FALSE,
     includePatterns |->
        <<"**/*.js", "**/*.ts", "**/*.tsx", "**/*.jsx", "**/*.py",
          "**/*.java", "**/*.cpp", "**/*.c", "**/*.h">>,
     excludePatterns |->
        <<"node_modules/**", "dist/**", "build/**", ".git/**",
          "**/*.test.*", "**/*.spec.*">>,
     outputFormat |-> "both",
     updateReadme |-> TRUE,
     readmePath |-> "README.md",
     languages |->
        <<"javascript", "typescript", "python", "java", "cpp", "c">>,
     customPrompts |->
        [codeAnalysis |-> "Analyze this code change and provide: ...",
         documentation |-> "Generate clear, helpful documentation ...",
         summary |-> "Provide a brief, one-paragraph summary ..."]]

\* .aicontext.json: no such file, a file that readJson fails on, or a
\* file holding an object.
NoFile == [exists |-> FALSE]
BrokenFile == [exists |-> TRUE, readable |-> FALSE]
JsonFile(object) == [exists |-> TRUE, readable |-> TRUE, json |-> object]

\* ConfigManager.load: the configuration it leaves in this.config and
\* returns; readJson throwing is caught and leaves this.config as it was.
load(current, file) ==
    IF file.exists /\ file.readable
    THEN Spread(DEFAULT_CONFIG, file.json)
    ELSE current

\* Whether load warns on the console.
loadWarns(file) == file.exists /\ ~file.readable

CouldNotLoad ==
    [stream |-> "console.warn",
     text |-> << <<"Warning: Could not load config file, using defaults">> >>]

\* ConfigManager.save: what it leaves in this.config and in the file.
save(current, updates) == Spread(current, updates)

getApiKey(current, environment) ==
    IF ~Falsy(Get(current, "apiKey")) THEN current.apiKey
    ELSE IF ~Falsy(Get(environment, "OPENAI_API_KEY"))
         THEN environment.OPENAI_API_KEY
    ELSE IF ~Falsy(Get(environment, "ANTHROPIC_API_KEY"))
         THEN environment.ANTHROPIC_API_KEY
    ELSE ""

ApiKeyRequired == "API key is required"
ProviderMustBeKnown == "aiProvider must be one of: openai, anthropic, local"
MaxTokensOutOfRange == "maxTokens should be between 100 and 8000"
TemperatureOutOfRange == "temperature should be between 0 and 1"

\* ConfigManager.validateConfig: the errors it reports.
validateErrors(current, environment) ==
    (IF Falsy(getApiKey(current, environment))
     THEN {ApiKeyRequired} ELSE {})
    \cup (IF current.aiProvider \notin {"openai", "anthropic", "local"}
          THEN {ProviderMustBeKnown} ELSE {})
    \cup (IF current.maxTokens # 0
             /\ (current.maxTokens < 100 \/ current.maxTokens > 8000)
          THEN {MaxTokensOutOfRange} ELSE {})
    \cup (IF current.temperature # 0
             /\ (current.temperature < 0 \/ current.temperature > 10)
          THEN {TemperatureOutOfRange} ELSE {})

validateConfig(current, environment) ==
    [valid |-> validateErrors(current, environment) = {},
     errors |-> validateErrors(current, environment)]

---------------------------------------------------------------------------
(* The AI providers (ai-provider.ts).  An array is an object whose keys    *)
(* are its indexes.                                                        *)

ProviderTags == {"openai", "anthropic", "local"}

ProviderOf(tag) ==
    CASE tag = "openai" -> "OpenAIProvider"
      [] tag = "anthropic" -> "AnthropicProvider"
      [] tag = "local" -> "LocalProvider"

UnsupportedProvider(tag) == <<"Unsupported AI provider: ", tag>>

\* A factory that falls back to the OpenAI provider.
createAIProviderOrDefault(current) ==
    [provider |-> IF current.aiProvider \in ProviderTags
                  THEN ProviderOf(current.aiProvider) ELSE "OpenAIProvider",
     thrown |-> <<>>]

\* createAIProvider: the provider it returns, or the message of the error
\* it throws.
createAIProvider(current) ==
    IF current.aiProvider \in ProviderTags
    THEN [provider |-> ProviderOf(current.aiProvider), thrown |-> <<>>]
    ELSE [provider |-> "none",
          thrown |-> UnsupportedProvider(current.aiProvider)]

ApiUrl(provider, current) ==
    CASE provider = "OpenAIProvider" ->
            "https://api.openai.com/v1/chat/completions"
      [] provider = "AnthropicProvider" ->
            "https://api.anthropic.com/v1/messages"
      [] provider = "LocalProvider" ->
            IF Falsy(Get(current, "apiUrl"))
            THEN "http://localhost:11434/api/chat" ELSE current.apiUrl

\* The headers of the request: the key of this.config, as it is.
Headers(provider, current) ==
    CASE provider = "OpenAIProvider" ->
            [Authorization |-> <<"Bearer ", Get(current, "apiKey")>>]
      [] provider = "AnthropicProvider" ->
            [xApiKey |-> <<Get(current, "apiKey")>>]
      [] provider = "LocalProvider" -> <<>>

Request(provider, current) ==
    [url |-> ApiUrl(provider, current),
     headers |-> Headers(provider, current)]

\* a?.b?.c ... : undefined as soon as a key is missing.
RECURSIVE Chain(_, _)
Chain(object, path) ==
    IF path = <<>> THEN object
    ELSE IF Head(path) \in DOMAIN object
         THEN Chain(object[Head(path)], Tail(path))
         ELSE JsUndefined

CannotRead(key) ==
    <<"Cannot read properties of undefined (reading '", key, "')">>

\* a.b.c ... : reading a key of undefined throws a TypeError; a missing
\* last key reads as undefined.
RECURSIVE Read(_, _)
Read(object, path) ==
    IF path = <<>> THEN [thrown |-> <<>>, value |-> object]
    ELSE IF Head(path) \in DOMAIN object
         THEN Read(object[Head(path)], Tail(path))
         ELSE IF Len(path) = 1
              THEN [thrown |-> <<>>, value |-> JsUndefined]
              ELSE [thrown |-> CannotRead(path[2]), value |-> JsUndefined]

\* The first TypeError of the reads, in their order.
RECURSIVE FirstThrown(_, _)
FirstThrown(data, paths) ==
    IF paths = <<>> THEN <<>>
    ELSE IF Read(data, Head(paths)).thrown # <<>>
         THEN Read(data, Head(paths)).thrown
         ELSE FirstThrown(data, Tail(paths))

\* The keys that makeRequest reads from response.data, content first.
ContentPath(provider) ==
    CASE provider = "OpenAIProvider" -> <<"choices", "0", "message", "content">>
      [] provider = "AnthropicProvider" -> <<"content", "0", "text">>
      [] provider = "LocalProvider" -> <<"message", "content">>

UsagePaths(provider) ==
    CASE provider = "OpenAIProvider" ->
            << <<"usage", "prompt_tokens">>, <<"usage", "completion_tokens">>,
               <<"usage", "total_tokens">> >>
      [] provider = "AnthropicProvider" ->
            << <<"usage", "input_tokens">>, <<"usage", "output_tokens">> >>
      [] provider = "LocalProvider" -> <<>>

FailurePrefix(provider) ==
    CASE provider = "OpenAIProvider" -> "OpenAI API request failed: "
      [] provider = "AnthropicProvider" -> "Anthropic API request failed: "
      [] provider = "LocalProvider" -> "Local API request failed: "

\* error.response?.data?.error?.message, for the local provider
\* error.response?.data?.error.
UpstreamMessage(provider, error) ==
    IF provider = "LocalProvider"
    THEN Chain(error, <<"response", "data", "error">>)
    ELSE Chain(error, <<"response", "data", "error", "message">>)

\* The message of the Error that the catch block of makeRequest throws.
FailureMessage(provider, error) ==
    <<FailurePrefix(provider)>> \o
       (IF Falsy(UpstreamMessage(provider, error))
        THEN error.message ELSE <<UpstreamMessage(provider, error)>>)

Rejected(message) == [state |-> "rejected", message |-> message]
Fulfilled(content) == [state |-> "fulfilled", content |-> content]
Pending == [state |-> "pending"]

\* makeRequest after axios.post failed.
makeRequestCatch(provider, error) ==
    Rejected(FailureMessage(provider, error))

\* makeRequest after axios.post answered: the response object is built
\* inside the try block, so a TypeError of a read is caught as well.
makeRequestReturn(provider, data) ==
    LET failed == FirstThrown(data, <<ContentPath(provider)>>
                                    \o UsagePaths(provider))
    IN IF failed # <<>>
       THEN makeRequestCatch(provider, [message |-> failed])
       ELSE Fulfilled(Read(data, ContentPath(provider)).value)

---------------------------------------------------------------------------
(* Inputs of the provider: the environment, the configuration file, the    *)
(* errors that axios.post rejects with and the bodies that it answers.     *)

\* The objects that have the key with one of the values, or lack it.
Opt(key, values) == {<<>>} \cup {key :> v : v \in values}

Envs ==
    {a @@ b : a \in Opt("OPENAI_API_KEY", {"sk-openai"}),
              b \in Opt("ANTHROPIC_API_KEY", {"sk-anthropic"})}

ProviderUserConfigs ==
    {a @@ b : a \in Opt("aiProvider",
                        {"openai", "anthropic", "local", "azure"}),
              b \in Opt("apiKey", {"sk-file", ""})}

ProviderConfigFiles ==
    {NoFile, BrokenFile} \cup {JsonFile(object) : object \in ProviderUserConfigs}

ErrorBody(message) == [data |-> [error |-> [message |-> message]]]

\* A failed connection, rejected credentials, an exhausted quota, and a
\* gateway error without an error body.
AxiosErrors(provider) ==
    IF provider = "LocalProvider"
    THEN { [message |-> <<"connect ECONNREFUSED 127.0.0.1:11434">>],
           [message |-> <<"Request failed with status code 404">>,
            response |-> [data |-> [error |-> "model 'llama2' not found"]]] }
    ELSE { [message |-> <<"timeout of 30000ms exceeded">>],
           [message |-> <<"Request failed with status code 401">>,
            response |-> ErrorBody("Incorrect API key provided")],
           [message |-> <<"Request failed with status code 429">>,
            response |-> ErrorBody("API rate limit exceeded")],
           [message |-> <<"Request failed with status code 502">>,
            response |-> [data |-> <<>>]] }

Usage(provider) ==
    IF provider = "OpenAIProvider"
    THEN [prompt_tokens |-> 10, completion_tokens |-> 20, total_tokens |-> 30]
    ELSE [input_tokens |-> 10, output_tokens |-> 20]

Analysis == "Summary: fixes bug"

\* The body of a successful response, and bodies that lack a part of it:
\* no content at all, an empty array, a message without text, no usage.
ResponseData(provider) ==
    CASE provider = "OpenAIProvider" ->
            { [choices |-> ("0" :> [message |-> [content |-> Analysis]]),
               usage |-> Usage(provider)],
              [usage |-> Usage(provider)],
              [choices |-> <<>>, usage |-> Usage(provider)],
              [choices |-> ("0" :> [message |-> [role |-> "assistant"]]),
               usage |-> Usage(provider)],
              [choices |-> ("0" :> [message |-> [content |-> Analysis]])] }
      [] provider = "AnthropicProvider" ->
            { [content |-> ("0" :> [text |-> Analysis]),
               usage |-> Usage(provider)],
              [usage |-> Usage(provider)],
              [content |-> <<>>, usage |-> Usage(provider)],
              [content |-> ("0" :> [type |-> "tool_use"]),
               usage |-> Usage(provider)],
              [content |-> ("0" :> [text |-> Analysis])] }
      [] provider = "LocalProvider" ->
            { [message |-> [content |-> Analysis]],
              [error |-> "model 'llama2' not found"],
              [message |-> [role |-> "assistant"]] }

MaxRequests == 2

---------------------------------------------------------------------------
(* An analyzer is initialized and its provider is called.                  *)

restVars == <<filterVars, extractVars, diffVars, analyzeVars, listVars>>

InitProvider ==
    /\ env \in Envs
    /\ configFile \in ProviderConfigFiles
    /\ managerConfig = DEFAULT_CONFIG
    /\ ProviderIdle
    /\ FilesIdle
    /\ FilterIdle
    /\ ExtractIdle
    /\ DiffIdle
    /\ AnalyzeIdle
    /\ CliIdle
    /\ ListIdle

\* CodeAnalyzer.initialize: the configuration is loaded and the provider
\* is made from it.
Initialize ==
    /\ aiProvider = "none"
    /\ thrown = <<>>
    /\ managerConfig' = load(managerConfig, configFile)
    /\ aiProvider' = createAIProvider(managerConfig').provider
    /\ thrown' = createAIProvider(managerConfig').thrown
    /\ console' = IF loadWarns(configFile)
                  THEN Append(console, CouldNotLoad) ELSE console
    /\ UNCHANGED <<env, configFile, posted, upstream, settled, options,
                   updateReadme, written, readme, restVars,
                   fileVars>>

\* analyzeCode, up to the await of axios.post.
AnalyzeCode ==
    /\ aiProvider # "none"
    /\ settled.state # "pending"
    /\ Len(posted) < MaxRequests
    /\ posted' = Append(posted, Request(aiProvider, managerConfig))
    /\ upstream' = [kind |-> "none"]
    /\ settled' = Pending
    /\ UNCHANGED <<aiProvider, configVars, cliVars, restVars,
                   fileVars>>

\* axios.post rejects: the request failed, or the status is not 2xx.
AxiosRejects ==
    /\ settled.state = "pending"
    /\ \E error \in AxiosErrors(aiProvider) :
          /\ upstream' = [kind |-> "error", error |-> error]
          /\ settled' = makeRequestCatch(aiProvider, error)
    /\ UNCHANGED <<aiProvider, posted, configVars, cliVars, restVars,
                   fileVars>>

\* axios.post answers with a body.
AxiosResolves ==
    /\ settled.state = "pending"
    /\ \E data \in ResponseData(aiProvider) :
          /\ upstream' = [kind |-> "response", data |-> data]
          /\ settled' = makeRequestReturn(aiProvider, data)
    /\ UNCHANGED <<aiProvider, posted, configVars, cliVars, restVars,
                   fileVars>>

NextProvider ==
    \/ Initialize
    \/ AnalyzeCode
    \/ AxiosRejects
    \/ AxiosResolves

SpecProvider == InitProvider /\ [][NextProvider]_vars

---------------------------------------------------------------------------
(* The config command (cli.ts, manageConfig).  Every command is a process  *)
(* of its own: it makes a ConfigManager, and the console holds what this   *)
(* command printed.                                                        *)

\* argument.split('='): the argument is a sequence of words and "=", with
\* at most one word between two "=".
RECURSIVE SplitEquals(_)
SplitEquals(argument) ==
    IF argument = <<>> THEN <<"">>
    ELSE IF Head(argument) = "=" THEN <<"">> \o SplitEquals(Tail(argument))
    ELSE <<Head(argument)>> \o Tail(SplitEquals(Tail(argument)))

\* const [key, value] = parts
Part(parts, n) == IF n <= Len(parts) THEN parts[n] ELSE JsUndefined

\* The user configurations of the files: some settings, and some or all
\* of the custom prompts.
ConfigUserConfigs ==
    {a @@ b @@ c @@ d :
        a \in Opt("model", {"gpt-3.5-turbo"}),
        b \in Opt("updateReadme", {FALSE}),
        c \in Opt("apiKey", {"sk-file"}),
        d \in Opt("customPrompts",
                  {[summary |-> "Summarize in one line"],
                   [codeAnalysis |-> "Review this change",
                    documentation |-> "Document this code",
                    summary |-> "Summarize in one line"]})}

ConfigFiles ==
    {NoFile, BrokenFile} \cup {JsonFile(object) : object \in ConfigUserConfigs}

\* The arguments of --set: settings whose values are strings (the value is
\* stored as the string it was given as), and arguments without a key or
\* without a value.
SetArguments ==
    { <<"model", "=", "gpt-4o">>,
      <<"readmePath", "=", "DOCS.md">>,
      <<"model", "=", "gpt-4o", "=", "mini">>,
      <<"model">>,
      <<"=", "gpt-4o">> }

MaxConfigCommands == 3

CurrentConfiguration(current) ==
    [stream |-> "console.log",
     text |-> << <<"Current configuration:">>, <<current>> >>]

PleaseProvideKeyValue ==
    [stream |-> "console.error",
     text |-> << <<"Error: Please provide key=value format">> >>]

ConfigurationUpdated(key, value) ==
    [stream |-> "console.log",
     text |-> << <<"Configuration updated: ", key, " = ", value>> >>]

ConfigurationReset ==
    [stream |-> "console.log",
     text |-> << <<"Configuration reset to defaults">> >>]

InitConfig ==
    /\ env = <<>>
    /\ configFile \in ConfigFiles
    /\ managerConfig = <<>>
    /\ ProviderIdle
    /\ FilesIdle
    /\ FilterIdle
    /\ ExtractIdle
    /\ DiffIdle
    /\ AnalyzeIdle
    /\ CliIdle
    /\ ListIdle

\* config --show: the configuration is loaded and printed.
ManageConfigShow ==
    /\ Len(history) < MaxConfigCommands
    /\ history' = Append(history, [name |-> "show"])
    /\ managerConfig' = load(DEFAULT_CONFIG, configFile)
    /\ console' = (IF loadWarns(configFile) THEN <<CouldNotLoad>> ELSE <<>>)
                     \o <<CurrentConfiguration(managerConfig')>>
    /\ UNCHANGED <<env, configFile, providerVars, hook, readmeFile,
                   readmeAtStart, options, updateReadme, thrown, written,
                   readme, restVars>>

\* config --set key=value: the update is saved by a manager that has not
\* loaded the file.
ManageConfigSet ==
    /\ Len(history) < MaxConfigCommands
    /\ \E argument \in SetArguments :
          LET key == Part(SplitEquals(argument), 1)
              value == Part(SplitEquals(argument), 2)
          IN /\ history' = Append(history,
                   [name |-> "set", key |-> key, value |-> value])
             /\ IF Falsy(key) \/ Falsy(value)
                THEN /\ console' = <<PleaseProvideKeyValue>>
                     /\ managerConfig' = DEFAULT_CONFIG
                     /\ configFile' = configFile
                ELSE /\ managerConfig' = save(DEFAULT_CONFIG, key :> value)
                     /\ configFile' = JsonFile(managerConfig')
                     /\ console' = <<ConfigurationUpdated(key, value)>>
    /\ UNCHANGED <<env, providerVars, hook, readmeFile, readmeAtStart,
                   options, updateReadme, thrown, written, readme, restVars>>

\* config --reset: the defaults are written to the file.
ManageConfigReset ==
    /\ Len(history) < MaxConfigCommands
    /\ history' = Append(history, [name |-> "reset"])
    /\ managerConfig' = DEFAULT_CONFIG
    /\ configFile' = JsonFile(DEFAULT_CONFIG)
    /\ console' = <<ConfigurationReset>>
    /\ UNCHANGED <<env, providerVars, hook, readmeFile, readmeAtStart,
                   options, updateReadme, thrown, written, readme, restVars>>

NextConfig ==
    \/ ManageConfigShow
    \/ ManageConfigSet
    \/ ManageConfigReset

SpecConfig == InitConfig /\ [][NextConfig]_vars

---------------------------------------------------------------------------
(* The watch command (cli.ts, watchForChanges) and the commit hook         *)
(* (git-utils.ts).  A file is its lines and its mode.                      *)

HookContent ==
    <<"#!/bin/sh",
      "# AI Code Context post-commit hook",
      "ai-context analyze --commit HEAD~1..HEAD --auto">>

File(content, mode) == [exists |-> TRUE, content |-> content, mode |-> mode]

\* A hook that adds its lines to the hook that is there.
installCommitHookAppending(file) ==
    File((IF file.exists THEN file.content ELSE <<>>) \o HookContent, "755")

\* GitUtils.installCommitHook: ensureFile, writeFile, chmod.
installCommitHook(file) == File(HookContent, "755")

\* GitUtils.removeCommitHook: the file is removed if it exists.
removeCommitHook(file) == IF file.exists THEN [exists |-> FALSE] ELSE file

\* The post-commit hooks that a repository may have before the command:
\* none, or one of the user's own.
Hooks == {[exists |-> FALSE], File(<<"#!/bin/sh", "npm test">>, "755")}

MaxHookCommands == 4

HookInstalled ==
    << [stream |-> "console.log",
        text |-> << <<"Git commit hook installed">> >>],
       [stream |-> "console.log",
        text |-> << <<"Now commits will be automatically analyzed!">> >>] >>

HookRemoved ==
    << [stream |-> "console.log", text |-> << <<"Git commit hook removed">> >>] >>

HookUsage ==
    << [stream |-> "console.log",
        text |-> << <<"Git hook management:">>,
                    <<"  --install-hook  Install automatic analysis on commits">>,
                    <<"  --remove-hook   Remove automatic analysis">> >>] >>

InitHook ==
    /\ hook \in Hooks
    /\ history = <<>>
    /\ readmeFile = [exists |-> FALSE]
    /\ readmeAtStart = [exists |-> FALSE]
    /\ ConfigIdle
    /\ ProviderIdle
    /\ FilterIdle
    /\ ExtractIdle
    /\ DiffIdle
    /\ AnalyzeIdle
    /\ CliIdle
    /\ ListIdle

\* watch --install-hook
WatchInstallHook ==
    /\ Len(history) < MaxHookCommands
    /\ history' = Append(history, [name |-> "install"])
    /\ hook' = installCommitHook(hook)
    /\ console' = HookInstalled
    /\ UNCHANGED <<readmeFile, readmeAtStart, configVars, providerVars,
                   options, updateReadme, thrown, written, readme, restVars>>

\* watch --remove-hook
WatchRemoveHook ==
    /\ Len(history) < MaxHookCommands
    /\ history' = Append(history, [name |-> "remove"])
    /\ hook' = removeCommitHook(hook)
    /\ console' = HookRemoved
    /\ UNCHANGED <<readmeFile, readmeAtStart, configVars, providerVars,
                   options, updateReadme, thrown, written, readme, restVars>>

\* watch without an option prints the options.
WatchUsage ==
    /\ Len(history) < MaxHookCommands
    /\ history' = Append(history, [name |-> "watch"])
    /\ console' = HookUsage
    /\ UNCHANGED <<hook, readmeFile, readmeAtStart, configVars, providerVars,
                   options, updateReadme, thrown, written, readme, restVars>>

NextHook ==
    \/ WatchInstallHook
    \/ WatchRemoveHook
    \/ WatchUsage

SpecHook == InitHook /\ [][NextHook]_vars

---------------------------------------------------------------------------
(* The README update of the analyze command (cli.ts, updateReadme).  The   *)
(* text of a file is a sequence of lexemes, of which the section marker    *)
(* and the blank line are one each.                                        *)

sectionMarker == "<!-- AI Code Context Analysis -->"

BlankLine == "\n\n"

\* content.indexOf(sectionMarker, from): the first position at or after
\* `from` that holds the marker, 0 when there is none (-1 in the code).
IndexOf(content, from) ==
    LET found == {k \in from..Len(content) : content[k] = sectionMarker}
    IN IF found = {} THEN 0 ELSE Min(found)

Section(report) ==
    <<sectionMarker, BlankLine>> \o report \o <<BlankLine, sectionMarker>>

\* updateReadme: the file after the call.
updateReadmeFile(file, report) ==
    IF ~file.exists THEN file
    ELSE LET content == file.content
             startIndex == IndexOf(content, 1)
             endIndex == IndexOf(content, startIndex + 1)
         IN IF startIndex # 0 /\ endIndex # 0
            THEN [file EXCEPT !.content =
                     SubSeq(content, 1, startIndex - 1) \o Section(report)
                        \o SubSeq(content, endIndex + 1, Len(content))]
            ELSE [file EXCEPT !.content =
                     content \o <<BlankLine>> \o Section(report)]

ReadmeUpdated ==
    [stream |-> "console.log",
     text |-> << <<"Updated ", "README.md", " with analysis">> >>]

\* The READMEs before the first run: none, or a text without a marker.
Readmes ==
    { [exists |-> FALSE],
      [exists |-> TRUE, content |-> <<"# Project">>],
      [exists |-> TRUE, content |-> <<"# Project", BlankLine, "Usage">>] }

\* The reports of the runs; the analysis of one quotes the section marker.
Reports ==
    { <<"# Code Analysis Report", "analysis of a.ts">>,
      <<"# Code Analysis Report", "analysis of b.ts">>,
      <<"# Code Analysis Report", "analysis of cli.ts: writes ",
        sectionMarker, " to the README">> }

MaxRuns == 3

InitReadme ==
    /\ readmeFile \in Readmes
    /\ readmeAtStart = readmeFile
    /\ history = <<>>
    /\ hook = [exists |-> FALSE]
    /\ ConfigIdle
    /\ ProviderIdle
    /\ FilterIdle
    /\ ExtractIdle
    /\ DiffIdle
    /\ AnalyzeIdle
    /\ CliIdle
    /\ ListIdle

\* The end of a successful analyze run that was not stopped by --auto:
\* the configuration is loaded and the README is updated if it says so.
AnalyzeUpdatesReadme ==
    /\ Len(history) < MaxRuns
    /\ \E report \in Reports, update \in BOOLEAN :
          /\ history' = Append(history,
                [name |-> "analyze", updateReadme |-> update,
                 report |-> report])
          /\ readmeFile' = IF update
                           THEN updateReadmeFile(readmeFile, report)
                           ELSE readmeFile
          /\ console' = IF update /\ readmeFile.exists
                        THEN <<ReadmeUpdated>> ELSE <<>>
    /\ UNCHANGED <<hook, readmeAtStart, configVars, providerVars, options,
                   updateReadme, thrown, written, readme, restVars>>

NextReadme == AnalyzeUpdatesReadme

SpecReadme == InitReadme /\ [][NextReadme]_vars

---------------------------------------------------------------------------
(* Claims about the report.                                                *)

\* The text is a run of consecutive lexemes of the line.
Contains(line, text) ==
    \E a \in 1..(Len(line) - Len(text) + 1) :
       SubSeq(line, a, a + Len(text) - 1) = text

\* The lines of the r-th per-file section of a report: from its "### "
\* line up to the next one, or to the end of the report.
SectionAt(report, r) ==
    LET hs == {k \in 1..Len(report) :
                  report[k] # <<>> /\ Head(report[k]) = "### "}
        first == Ascending(hs)[r]
        later == {k \in hs : k > first}
    IN SubSeq(report, first,
              IF later = {} THEN Len(report) ELSE Min(later) - 1)

\* The first line after line `from` of a section that holds the text, and
\* a line past the section when there is none.
After(section, from, text) ==
    Min({k \in (from + 1)..Len(section) : Contains(section[k], text)}
        \cup {Len(section) + 1})

\* After line `from`, the items of a list on lines of their own, in order;
\* the line of the last item, `from` for an empty list.
RECURSIVE AfterItems(_, _, _)
AfterItems(section, from, items) ==
    IF items = <<>> THEN from
    ELSE AfterItems(section,
                    After(section, from, <<"- ">> \o Head(items)),
                    Tail(items))

HasTitle(section, title) ==
    \E k \in 1..Len(section) : section[k] = <<title>>

\* The section renders the fields of the result in the order path,
\* language, summary, purpose, key changes, impact, documentation,
\* suggestions, then the separator; a list block is there exactly when
\* its list has items.
RendersEveryField(section, result) ==
    LET kFile == After(section, 0, result.file)
        kLanguage == After(section, kFile, <<result.language>>)
        kSummary == After(section, kLanguage, result.summary)
        kPurpose == After(section, kSummary, result.purpose)
        kChanges == AfterItems(section, kPurpose, result.keyChanges)
        kImpact == After(section, kChanges, result.impact)
        kDocumentation == After(section, kImpact, result.documentation)
        kSuggestions ==
            AfterItems(section, kDocumentation, result.suggestions)
        kSeparator == After(section, kSuggestions, <<"---">>)
    IN /\ kFile = 1
       /\ kSeparator <= Len(section)
       /\ HasTitle(section, "**Key Changes:**") <=> result.keyChanges # <<>>
       /\ HasTitle(section, "**Suggestions:**") <=> result.suggestions # <<>>

\* C21: in the report that the command puts out, the section of every
\* result renders every field of the result (path, language, summary,
\* purpose, key changes, impact, documentation, suggestions) in that
\* order, followed by a separator, and the Key Changes and Suggestions
\* blocks are left out exactly when their list is empty.
C21_SectionRendersEveryField ==
    (phase = "done" /\ ~options.auto) =>
       \A r \in 1..Len(results) :
          RendersEveryField(SectionAt(ReportPutOut, r), results[r])

---------------------------------------------------------------------------
(* Claims about the providers.                                             *)

\* The message that the failed request carries from upstream: the message
\* of the error body when there is one, that of the error otherwise.
UpstreamCause(provider, error) ==
    IF "response" \in DOMAIN error /\ "error" \in DOMAIN error.response.data
    THEN IF provider = "LocalProvider"
         THEN <<error.response.data.error>>
         ELSE <<error.response.data.error.message>>
    ELSE error.message

\* The body has no content where the provider expects it.
LacksContent(provider, data) ==
    \/ Read(data, ContentPath(provider)).thrown # <<>>
    \/ Read(data, ContentPath(provider)).value = JsUndefined

\* The call rejected with the failure message of the provider.
RejectedWith(cause) ==
    /\ settled.state = "rejected"
    /\ Head(settled.message) = FailurePrefix(aiProvider)
    /\ Tail(settled.message) = cause

\* C22: for each provider, when the request fails the call rejects with an
\* error whose message carries the upstream message, and when the answer
\* lacks the expected shape the call rejects and returns no response.
C22_BackendFailureRejects ==
    /\ upstream.kind = "error" =>
          RejectedWith(UpstreamCause(aiProvider, upstream.error))
    /\ (upstream.kind = "response"
          /\ LacksContent(aiProvider, upstream.data)) =>
          settled.state = "rejected"

\* initialize has run: it made a provider or it threw.
Initialized == aiProvider # "none" \/ thrown # <<>>

\* C23: createAIProvider returns the OpenAI, Anthropic or Local provider
\* for the tags 'openai', 'anthropic' and 'local', and for every other
\* tag it throws 'Unsupported AI provider: <tag>' and makes no provider.
C23_ProviderFollowsTheTag ==
    Initialized =>
       LET tag == managerConfig.aiProvider
       IN /\ tag = "openai" =>
                aiProvider = "OpenAIProvider" /\ thrown = <<>>
          /\ tag = "anthropic" =>
                aiProvider = "AnthropicProvider" /\ thrown = <<>>
          /\ tag = "local" =>
                aiProvider = "LocalProvider" /\ thrown = <<>>
          /\ tag \notin {"openai", "anthropic", "local"} =>
                /\ aiProvider = "none"
                /\ thrown = <<"Unsupported AI provider: ", tag>>
                /\ posted = <<>>

\* The configuration file names a provider that does not exist, and
\* initialize threw.
C23_UnsupportedTagThrew ==
    /\ configFile.exists
    /\ managerConfig.aiProvider = "azure"
    /\ thrown = <<"Unsupported AI provider: ", "azure">>
    /\ aiProvider = "none"

\* The key that a request of the provider is authenticated with.
KeyOfRequest(request) ==
    IF aiProvider = "OpenAIProvider"
    THEN request.headers.Authorization[2]
    ELSE request.headers.xApiKey[1]

FileDefinesNoApiKey ==
    ~(configFile.exists /\ configFile.readable
        /\ "apiKey" \in DOMAIN configFile.json)

\* C24: when the configuration file defines no apiKey and the environment
\* variable of the provider is set, the requests are authenticated with
\* the key of the environment; whenever validateConfig reports the
\* configuration valid, the key of a request is the non-empty key that
\* getApiKey returns.
C24_RequestsCarryTheEffectiveKey ==
    \A k \in 1..Len(posted) :
       /\ (aiProvider = "OpenAIProvider" /\ FileDefinesNoApiKey
             /\ "OPENAI_API_KEY" \in DOMAIN env) =>
             posted[k].headers.Authorization = <<"Bearer ", env.OPENAI_API_KEY>>
       /\ (aiProvider = "AnthropicProvider" /\ FileDefinesNoApiKey
             /\ "ANTHROPIC_API_KEY" \in DOMAIN env) =>
             posted[k].headers.xApiKey = <<env.ANTHROPIC_API_KEY>>
       /\ (aiProvider \in {"OpenAIProvider", "AnthropicProvider"}
             /\ validateConfig(managerConfig, env).valid) =>
             /\ KeyOfRequest(posted[k]) = getApiKey(managerConfig, env)
             /\ KeyOfRequest(posted[k]) # ""

---------------------------------------------------------------------------
(* Claims about the configuration.                                         *)

LastCommand == history[Len(history)]

\* The --set command that ran last had a key and a value.
SetRan ==
    /\ history # <<>>
    /\ LastCommand.name = "set"
    /\ ~Falsy(LastCommand.key)
    /\ ~Falsy(LastCommand.value)

\* C25: when config --set key=value has run against an existing
\* .aicontext.json, the file has key=value and every other key of the
\* file keeps the value it had before the command.
C25_SetKeepsTheOtherKeys ==
    [][(SetRan' /\ Len(history') > Len(history)
          /\ configFile.exists /\ configFile.readable) =>
          /\ configFile'.json[LastCommand'.key] = LastCommand'.value
          /\ \A k \in DOMAIN configFile.json \ {LastCommand'.key} :
                /\ k \in DOMAIN configFile'.json
                /\ configFile'.json[k] = configFile.json[k]]_vars

\* Each setting of the file, the setting of the defaults where the file
\* has none; the custom prompts are settings of their own.
SettingBySetting(object) ==
    [k \in DOMAIN DEFAULT_CONFIG \cup DOMAIN object |->
        IF k \notin DOMAIN object THEN DEFAULT_CONFIG[k]
        ELSE IF k = "customPrompts"
             THEN [q \in DOMAIN DEFAULT_CONFIG.customPrompts
                          \cup DOMAIN object.customPrompts |->
                      IF q \in DOMAIN object.customPrompts
                      THEN object.customPrompts[q]
                      ELSE DEFAULT_CONFIG.customPrompts[q]]
             ELSE object[k]]

\* C29: load on a fresh ConfigManager returns for every setting the value
\* of .aicontext.json when the file defines it and the default otherwise,
\* the custom prompts one by one; when the file is missing or cannot be
\* read it returns the complete default configuration.
C29_LoadFillsInTheDefaults ==
    (history # <<>> /\ LastCommand.name = "show") =>
       IF configFile.exists /\ configFile.readable
       THEN managerConfig = SettingBySetting(configFile.json)
       ELSE managerConfig = DEFAULT_CONFIG

---------------------------------------------------------------------------
(* Claims about the commit hook.                                           *)

\* The install and remove operations that were run, in order.
HookOperations ==
    SelectSeq(history, LAMBDA c : c.name \in {"install", "remove"})

LastHookOperation == HookOperations[Len(HookOperations)].name

\* The hook as one install on a repository without a hook leaves it.
HookOfOneInstall ==
    [exists |-> TRUE,
     content |-> <<"#!/bin/sh", "# AI Code Context post-commit hook",
                   "ai-context analyze --commit HEAD~1..HEAD --auto">>,
     mode |-> "755"]

\* C26: after any sequence of install and remove operations the
\* post-commit hook exists exactly when the last operation was install;
\* it then runs `ai-context analyze --commit HEAD~1..HEAD --auto` and is
\* the hook of a single install; no operation fails, a remove without a
\* hook included.
C26_HookFollowsTheLastOperation ==
    HookOperations # <<>> =>
       /\ hook.exists <=> LastHookOperation = "install"
       /\ hook.exists =>
             /\ \E l \in 1..Len(hook.content) :
                   hook.content[l]
                      = "ai-context analyze --commit HEAD~1..HEAD --auto"
             /\ hook = HookOfOneInstall
       /\ thrown = <<>>
       /\ LastCommand.name = "remove" => console = HookRemoved

\* Two installs, then two removes: the second remove found no hook.
C26_InstalledTwiceRemovedTwice ==
    /\ Len(history) = 4
    /\ history[1].name = "install"
    /\ history[2].name = "install"
    /\ history[3].name = "remove"
    /\ history[4].name = "remove"
    /\ ~hook.exists

---------------------------------------------------------------------------
(* Claims about the single star and the anchors of the glob matcher.       *)

\* The translated pattern, or one of its alternatives, matches the path
\* from its first character to its last.
MatchesWholePath(pat, path) ==
    LET alts == SplitAlternatives(GlobToRegexSource(pat), 1, <<>>, <<>>)
    IN \E a \in 1..Len(alts) :
          /\ NewRegExp(alts[a]).ok
          /\ MatchFrom(Append(NewRegExp(alts[a]).atoms,
                              Atom("eol", "", FALSE, {})), 1, path, 1)

\* C27: a single "*" matches no "/", and a pattern matches a path only as
\* a whole: "*.ts" matches "file.ts" and rejects "src/file.ts", what it
\* matches has no "/" before its last three characters, and no pattern
\* matches a path of which it only matches a part.
C27_SingleStarAndAnchors ==
    matched # "none" =>
       /\ (pattern = PatTsSingle /\ filePath = PathFileTs) => matched = "true"
       /\ (pattern = PatTsSingle /\ filePath = PathSrcTs) => matched = "false"
       /\ (pattern = PatTsSingle /\ matched = "true") =>
             /\ Len(filePath) >= 3
             /\ \A k \in 1..(Len(filePath) - 3) : filePath[k] # "/"
       /\ matched = "true" => MatchesWholePath(pattern, filePath)

---------------------------------------------------------------------------
(* Claims about the README.                                                *)

\* The runs that had updateReadme enabled, in order.
UpdatingRuns == SelectSeq(history, LAMBDA c : c.updateReadme)

MarkersOf(content) == {k \in 1..Len(content) : content[k] = sectionMarker}

\* C28: starting from a README without a marker, after any number of
\* runs with updateReadme enabled the README has exactly two markers, the
\* text between them is the report of the latest run, and the text before
\* the first and after the second is what the first run left there: the
\* original text and nothing else.
C28_ReadmeKeepsOneSection ==
    (readmeAtStart.exists /\ UpdatingRuns # <<>>) =>
       LET content == readmeFile.content
           first == Min(MarkersOf(content))
           second == Max(MarkersOf(content))
           latest == UpdatingRuns[Len(UpdatingRuns)].report
       IN /\ Cardinality(MarkersOf(content)) = 2
          /\ SubSeq(content, first + 1, second - 1)
                = <<BlankLine>> \o latest \o <<BlankLine>>
          /\ SubSeq(content, 1, first - 1)
                = readmeAtStart.content \o <<BlankLine>>
          /\ second = Len(content)

---------------------------------------------------------------------------
(* Claims about the auto mode of the analyze command.                      *)

\* What the command printed with console.log.
Logged == SelectSeq(console, LAMBDA e : e.stream = "console.log")

===========================================================================
